---- MODULE Spec2Model ----
(***************************************************************************)
(* A state-machine model of the package risk-audit engine (round_2/backend) *)
(* of vibelympics: the version comparator and TTL cache of osv_client.py,   *)
(* the fetch orchestrator of routers/audit.py, the finding analyzers of     *)
(* services/analyzer.py and the scoring engine of services/scoring.py.      *)
(*                                                                         *)
(* Texts (version strings) are sequences of one-character strings, so that  *)
(* parsing is computed character by character as the code's regular         *)
(* expression does.  Python's None is the one-element text NoneText.        *)
(***************************************************************************)
EXTENDS Integers, Sequences, FiniteSets, TLC

VARIABLES
    rv,         \* version comparator: the call under evaluation and its result
    sc,         \* scoring engine: the finding list under evaluation and its results
    now,        \* datetime.now(), in seconds since the start of the process
    osv_cache,  \* osv_client._osv_cache._cache: key -> (value, timestamp)
    fv,         \* the fetch_vulnerabilities coroutines in flight, by request
    calls,      \* number of fetch_vulnerabilities calls made so far
    hist,       \* history of the cache: last completed set per key, last get
    au,         \* the audit in progress: request, tasks, response
    github_cache, \* github_client._github_cache._cache: key -> (value, timestamp)
    audits,     \* number of audits started so far
    rep,        \* the previous audit, kept when one request is audited repeatedly
    va,         \* a call of is_version_affected and of the loops that use it
    pv,         \* a call of a version parser on a qualified version text
    ty,         \* a call of check_typosquatting
    gm,         \* round_1: the game of a GameEngine
    ss,         \* src/app.py: the game sessions stored, and the clock of the server
    az,         \* the analyzer block of audit_package, one analyzer call at a time
    kc,         \* lookups of the two caches by their formatted keys
    an          \* a call of analyze_repository or of analyze_package_age

vars == <<rv, sc, now, osv_cache, fv, calls, hist, au, github_cache, audits, rep,
          va, pv, ty, gm, ss, az, kc, an>>

\* the variables of the specifications added last
lastVars == <<kc, an>>

\* the variables of the specifications added after the first five
restVars == <<va, pv, ty, gm, ss, az, lastVars>>

auditVars == <<au, github_cache, audits, rep>>

\* the variables of the first five specifications
firstVars == <<rv, sc, now, osv_cache, fv, calls, hist, au, github_cache, audits, rep>>

cacheVars == <<now, osv_cache, fv, calls, hist>>

----------------------------------------------------------------------------
(* Bounds of the model *)

\* largest major/minor/patch component of the enumerated version grid
MaxComp == 1

\* longest finding list over all the findings handed to the scoring engine
\* on its own, and longest list over the findings of one category
MaxFindings == 2

MaxLong == 6

\* seconds the clock advances in one step, and the number of such steps
ClockStep == 2400

MaxTicks == 2

\* concurrent callers of fetch_vulnerabilities, and calls they make in all
NumFetchers == 2

MaxCalls == 3

\* audits served one after the other
MaxAudits == 1

\* audits of one request served one after the other
MaxRepeats == 2

\* ranges of one drawn vulnerability record
MaxRanges == 2

\* the session store: requests made, clock steps and the length of a step
MaxRequests == 4

MaxSessionTicks == 3

SessionStep == 1800

----------------------------------------------------------------------------
(* Texts *)

NoneText == <<"None">>

DigitChars == <<"0", "1", "2", "3", "4", "5", "6", "7", "8", "9">>

IsDigit(c) == \E i \in 1..10 : DigitChars[i] = c

DigitVal(c) == (CHOOSE i \in 1..10 : DigitChars[i] = c) - 1

\* Python truthiness of an Optional[str]: None and "" are falsy
Truthy(t) == t # NoneText /\ t # <<>>

\* str(n) for a natural number
RECURSIVE Digits(_)
Digits(n) == IF n < 10 THEN <<DigitChars[n + 1]>>
             ELSE Digits(n \div 10) \o <<DigitChars[(n % 10) + 1]>>

\* the text "a.b.c"
VerText(a, b, c) == Digits(a) \o <<".">> \o Digits(b) \o <<".">> \o Digits(c)

\* str.strip(): drop leading and trailing blanks
RECURSIVE LStrip(_)
LStrip(s) == IF s # <<>> /\ Head(s) = " " THEN LStrip(Tail(s)) ELSE s

RECURSIVE RStrip(_)
RStrip(s) == IF s # <<>> /\ s[Len(s)] = " " THEN RStrip(SubSeq(s, 1, Len(s) - 1)) ELSE s

Strip(s) == RStrip(LStrip(s))

\* end index of the longest run of digits of s that starts at index i
\* (i - 1 when s[i] is no digit): the greedy match of \d+
RECURSIVE DigitRunEnd(_, _)
DigitRunEnd(s, i) == IF i <= Len(s) /\ IsDigit(s[i]) THEN DigitRunEnd(s, i + 1) ELSE i - 1

\* int() of a run of digits
RECURSIVE IntOf(_)
IntOf(ds) == IF ds = <<>> THEN 0
             ELSE 10 * IntOf(SubSeq(ds, 1, Len(ds) - 1)) + DigitVal(ds[Len(ds)])

----------------------------------------------------------------------------
(* Version comparator: services/osv_client.py *)

\* parse_semver: re.match(r'^(\d+)\.(\d+)\.(\d+)', version.strip()),
\* (0, 0, 0) when the text does not start with digits.digits.digits
parse_semver(version) ==
    LET s  == Strip(version)
        e1 == DigitRunEnd(s, 1)
        e2 == DigitRunEnd(s, e1 + 2)
        e3 == DigitRunEnd(s, e2 + 2)
    IN  IF /\ e1 >= 1
           /\ e1 + 1 <= Len(s) /\ s[e1 + 1] = "."
           /\ e2 >= e1 + 2
           /\ e2 + 1 <= Len(s) /\ s[e2 + 1] = "."
           /\ e3 >= e2 + 2
        THEN <<IntOf(SubSeq(s, 1, e1)),
               IntOf(SubSeq(s, e1 + 2, e2)),
               IntOf(SubSeq(s, e2 + 2, e3))>>
        ELSE <<0, 0, 0>>

\* Python's tuple comparison on (major, minor, patch)
TupleLess(a, b) ==
    \/ a[1] < b[1]
    \/ a[1] = b[1] /\ a[2] < b[2]
    \/ a[1] = b[1] /\ a[2] = b[2] /\ a[3] < b[3]

TupleLeq(a, b) == a = b \/ TupleLess(a, b)

\* the mutant of version_in_range in which the fixed version is inclusive
version_in_range_FixedInclusive(version, introduced, fixed, last_affected) ==
    LET v     == parse_semver(version)
        intro == IF Truthy(introduced) /\ introduced # <<"0">>
                 THEN parse_semver(introduced) ELSE <<0, 0, 0>>
    IN  IF TupleLess(v, intro) THEN FALSE
        ELSE IF Truthy(last_affected) THEN TupleLeq(v, parse_semver(last_affected))
        ELSE IF Truthy(fixed) THEN TupleLeq(v, parse_semver(fixed))
        ELSE TRUE

version_in_range(version, introduced, fixed, last_affected) ==
    LET v     == parse_semver(version)
        intro == IF Truthy(introduced) /\ introduced # <<"0">>
                 THEN parse_semver(introduced) ELSE <<0, 0, 0>>
    IN  IF TupleLess(v, intro) THEN FALSE
        ELSE IF Truthy(last_affected) THEN TupleLeq(v, parse_semver(last_affected))
        ELSE IF Truthy(fixed) THEN TupleLess(v, parse_semver(fixed))
        ELSE TRUE


----------------------------------------------------------------------------
(* Python values *)

PyNone == [type |-> "none"]

PyList(items) == [type |-> "list", items |-> items]

PyExc(cls) == [type |-> "exc", cls |-> cls]

IsException(x) == x.type = "exc"

----------------------------------------------------------------------------
(* TTL cache: class TTLCache of services/osv_client.py (the same class is   *)
(* repeated in services/github_client.py).  A cache is the dict _cache: a   *)
(* function from the stored keys to (value, timestamp).                     *)

\* _osv_cache = TTLCache(ttl_seconds=3600)
TTL_SECONDS == 3600

DictPut(d, key, entry) ==
    [k \in DOMAIN d \cup {key} |-> IF k = key THEN entry ELSE d[k]]

DictDel(d, key) == [k \in DOMAIN d \ {key} |-> d[k]]

EmptyDict == [k \in {} |-> PyNone]

\* the mutant of TTLCache.get that removes every expired entry it finds
TTLCache_get_Sweep(cache, key, t) ==
    LET live == { k \in DOMAIN cache : t - cache[k].timestamp < TTL_SECONDS }
        kept == [k \in live |-> cache[k]]
    IN  IF key \in live THEN [ret |-> cache[key].value, cache |-> kept]
        ELSE [ret |-> PyNone, cache |-> kept]

\* the mutant of TTLCache.get that never expires an entry
TTLCache_get_NoExpiry(cache, key, t) ==
    IF key \in DOMAIN cache
    THEN [ret |-> cache[key].value, cache |-> cache]
    ELSE [ret |-> PyNone, cache |-> cache]

\* TTLCache.get at time t: the value returned and the dict afterwards
TTLCache_get(cache, key, t) ==
    IF key \in DOMAIN cache
    THEN IF t - cache[key].timestamp < TTL_SECONDS
         THEN [ret |-> cache[key].value, cache |-> cache]
         ELSE [ret |-> PyNone, cache |-> DictDel(cache, key)]
    ELSE [ret |-> PyNone, cache |-> cache]

\* the mutant of TTLCache.set that keeps the timestamp of an entry it replaces
TTLCache_set_KeepTimestamp(cache, key, value, t) ==
    DictPut(cache, key,
            [value |-> value,
             timestamp |-> IF key \in DOMAIN cache THEN cache[key].timestamp ELSE t])

\* TTLCache.set at time t: the dict afterwards
TTLCache_set(cache, key, value, t) ==
    DictPut(cache, key, [value |-> value, timestamp |-> t])

----------------------------------------------------------------------------
(* OSV client: services/osv_client.py *)

\* value of the last event of a range that has the given key, None if none
RECURSIVE LastEvent(_, _)
LastEvent(events, kind) ==
    IF events = <<>> THEN NoneText
    ELSE LET e == events[Len(events)]
         IN  IF e.kind = kind THEN e.value
             ELSE LastEvent(SubSeq(events, 1, Len(events) - 1), kind)

\* one SEMVER range of is_version_affected: introduced, fixed and
\* last_affected are read off the events, then version_in_range decides
RangeAffects(version, range) ==
    /\ range.type = "SEMVER"
    /\ LET introduced    == LastEvent(range.events, "introduced")
           fixed         == LastEvent(range.events, "fixed")
           last_affected == LastEvent(range.events, "last_affected")
       IN  /\ introduced # NoneText
           /\ version_in_range(version, introduced, fixed, last_affected)

is_version_affected(version, vuln) ==
    IF ~ Truthy(version) THEN TRUE
    ELSE \E i \in 1..Len(vuln.affected) :
            /\ vuln.affected[i].ecosystem = "npm"
            /\ \E j \in 1..Len(vuln.affected[i].ranges) :
                   RangeAffects(version, vuln.affected[i].ranges[j])

\* str.lower() on the severity words of an advisory database
Lower(w) ==
    CASE w = "CRITICAL" -> "critical"
      [] w = "HIGH"     -> "high"
      [] w = "MEDIUM"   -> "medium"
      [] w = "MODERATE" -> "moderate"
      [] w = "LOW"      -> "low"
      [] OTHER          -> w

\* index of the first CVSS_V3 entry of a severity list, 0 if none
FirstCvss(sevs) ==
    IF \E i \in 1..Len(sevs) : sevs[i].type = "CVSS_V3"
    THEN CHOOSE i \in 1..Len(sevs) :
            /\ sevs[i].type = "CVSS_V3"
            /\ \A j \in 1..(i - 1) : sevs[j].type # "CVSS_V3"
    ELSE 0

\* the severity fetch_vulnerabilities extracts: "medium", replaced by the
\* word found in the first CVSS_V3 score, replaced by database_specific
\* (a score is modelled by the severity word it contains, "" if none)
ExtractSeverity(vuln) ==
    LET i   == FirstCvss(vuln.severity)
        cv  == IF i = 0 THEN "medium"
               ELSE IF vuln.severity[i].score \in {"CRITICAL", "HIGH", "MEDIUM", "LOW"}
                    THEN Lower(vuln.severity[i].score)
                    ELSE "medium"
    IN  IF vuln.db_severity # "" THEN Lower(vuln.db_severity) ELSE cv

\* the first alias that starts with CVE-, "" if none (an alias is modelled
\* by [cve, text])
RECURSIVE FirstCve(_)
FirstCve(aliases) ==
    IF aliases = <<>> THEN ""
    ELSE IF Head(aliases).cve THEN Head(aliases).text ELSE FirstCve(Tail(aliases))

\* the loop of fetch_vulnerabilities over data["vulns"]
RECURSIVE OsvResults(_, _)
OsvResults(version, vulns) ==
    IF vulns = <<>> THEN <<>>
    ELSE LET vuln == Head(vulns)
             rest == OsvResults(version, Tail(vulns))
         IN  IF Truthy(version) /\ ~ is_version_affected(version, vuln)
             THEN rest
             ELSE <<[id |-> vuln.id, cve_id |-> FirstCve(vuln.aliases),
                     severity |-> ExtractSeverity(vuln)]>> \o rest

\* historical_cves_fixed of audit_package: the records of all_vulns that do
\* not affect the target version
HistoricalCvesFixed(target_version, all_vulns) ==
    Len(SelectSeq(all_vulns, LAMBDA vuln : ~ is_version_affected(target_version, vuln)))

\* the package names of the audited registry as texts
NameChars(package_name) ==
    CASE package_name = "lodash"   -> <<"l", "o", "d", "a", "s", "h">>
      [] package_name = "evil-pkg" -> <<"e", "v", "i", "l", "-", "p", "k", "g">>
      [] package_name = "orphan-pkg" ->
              <<"o", "r", "p", "h", "a", "n", "-", "p", "k", "g">>
      [] OTHER                     -> <<"n", "o", "-", "s", "u", "c", "h", "-", "p", "k", "g">>

\* the mutant of osv_cache_key that leaves the version out of the key
osv_cache_key_NoVersion(package_name, version) ==
    <<"o", "s", "v", ":">> \o package_name

\* cache_key = f"osv:{package_name}:{version or 'all'}", on texts
osv_cache_key(package_name, version) ==
    <<"o", "s", "v", ":">> \o package_name \o <<":">>
        \o (IF Truthy(version) THEN version ELSE <<"a", "l", "l">>)

\* the key of fetch_vulnerabilities for a package of the audited registry
OsvCacheKey(package_name, version) == osv_cache_key(NameChars(package_name), version)

----------------------------------------------------------------------------
(* The vulnerability database the OSV client talks to *)

V_4_17_11 == VerText(4, 17, 11)

V_4_17_21 == VerText(4, 17, 21)

NpmRange(events) == <<[ecosystem |-> "npm", ranges |-> <<[type |-> "SEMVER", events |-> events]>>]>>

\* prototype pollution, fixed in 4.17.12
VulnProto ==
    [id |-> "GHSA-jf85-cpcp-j695",
     aliases |-> <<[cve |-> TRUE, text |-> "CVE-2019-10744"]>>,
     severity |-> <<[type |-> "CVSS_V3", score |-> ""]>>,
     db_severity |-> "CRITICAL",
     affected |-> NpmRange(<<[kind |-> "introduced", value |-> <<"0">>],
                             [kind |-> "fixed", value |-> VerText(4, 17, 12)]>>)]

\* command injection, fixed in 4.17.21
VulnCmdInj ==
    [id |-> "GHSA-35jh-r3h4-6jhm",
     aliases |-> <<[cve |-> TRUE, text |-> "CVE-2021-23337"]>>,
     severity |-> <<>>,
     db_severity |-> "HIGH",
     affected |-> NpmRange(<<[kind |-> "introduced", value |-> <<"0">>],
                             [kind |-> "fixed", value |-> V_4_17_21]>>)]

\* an advisory without a fix, open since 4.17.20
VulnOpen ==
    [id |-> "GHSA-open-0000-0001",
     aliases |-> <<>>,
     severity |-> <<[type |-> "CVSS_V3", score |-> ""]>>,
     db_severity |-> "",
     affected |-> NpmRange(<<[kind |-> "introduced", value |-> VerText(4, 17, 20)]>>)]

\* a critical advisory of orphan-pkg, fixed in 1.0.1
VulnOrphan ==
    [id |-> "GHSA-orph-0000-0001",
     aliases |-> <<[cve |-> TRUE, text |-> "CVE-2024-00001"]>>,
     severity |-> <<>>,
     db_severity |-> "CRITICAL",
     affected |-> NpmRange(<<[kind |-> "introduced", value |-> <<"0">>],
                             [kind |-> "fixed", value |-> VerText(1, 0, 1)]>>)]

\* the same advisory after it was introduced again in 2.0.0 and fixed in
\* 2.0.1: one range with two intervals
VulnOrphanAgain ==
    [VulnOrphan EXCEPT
        !.affected = NpmRange(<<[kind |-> "introduced", value |-> <<"0">>],
                                [kind |-> "fixed", value |-> VerText(1, 0, 1)],
                                [kind |-> "introduced", value |-> VerText(2, 0, 0)],
                                [kind |-> "fixed", value |-> VerText(2, 0, 1)]>>)]

\* the "vulns" lists a query for a package may be answered with
OsvResponses(package_name) ==
    CASE package_name = "lodash" ->
              { <<VulnProto, VulnOpen>>, <<VulnProto, VulnCmdInj, VulnOpen>> }
      [] package_name = "orphan-pkg" -> { <<VulnOrphan>>, <<VulnOrphanAgain>> }
      [] OTHER -> { <<>> }

\* what happens to the POST of fetch_vulnerabilities
OsvOutcomes(package_name) ==
    { [kind |-> "ok", vulns |-> r] : r \in OsvResponses(package_name) }
    \cup { [kind |-> "timeout", vulns |-> <<>>], [kind |-> "error", vulns |-> <<>>] }

\* fetch_vulnerabilities with except branches that store and return None
OsvValue_FailureNone(version, outcome) ==
    IF outcome.kind = "ok" THEN PyList(OsvResults(version, outcome.vulns))
    ELSE PyNone

\* the value fetch_vulnerabilities stores and returns for an outcome:
\* the filtered results, and [] in both except branches
OsvValue(version, outcome) ==
    IF outcome.kind = "ok" THEN PyList(OsvResults(version, outcome.vulns))
    ELSE PyList(<<>>)

----------------------------------------------------------------------------
(* Scoring engine: services/scoring.py, models/response.py *)

Severities == {"critical", "high", "medium", "low", "info"}

Categories == {"authenticity", "maintenance", "security", "reputation"}

\* severity_points of calculate_risk_score
severity_points(sev) ==
    CASE sev = "critical" -> 25
      [] sev = "high"     -> 15
      [] sev = "medium"   -> 8
      [] sev = "low"      -> 3
      [] sev = "info"     -> 0

HIGH_RISK_CATEGORIES == {"authenticity", "security"}

Min(a, b) == IF a <= b THEN a ELSE b

Max(a, b) == IF a >= b THEN a ELSE b

----------------------------------------------------------------------------
(* Python floats.  The totals of the scoring engine are IEEE-754 doubles.   *)
(* Every double met here is a multiple of 2^-57 next to a multiple of 1/20, *)
(* so a double is kept as [n, e] with value n/20 + e * 2^-57 / 5: n counts  *)
(* twentieths and e is the (small) distance from n/20, five units of e      *)
(* making 2^-57.                                                            *)

Dbl(n, e) == [n |-> n, e |-> e]

\* the exponent p of a positive value: 2^p <= value < 2^(p+1)
Binade(n, e) ==
    CHOOSE p \in (0 - 6)..12 :
        /\ 20 * 2^(p + 6) < 64 * n \/ (20 * 2^(p + 6) = 64 * n /\ e >= 0)
        /\ 64 * n < 20 * 2^(p + 7) \/ (64 * n = 20 * 2^(p + 7) /\ e < 0)

\* 2^k modulo 5
Pow2Mod5(k) == <<1, 2, 4, 3>>[(k % 4) + 1]

\* the double nearest to x.n/20 + x.e * 2^-57 / 5, ties to the even
\* mantissa, for a value of exponent j - 5: the value is rounded to a
\* multiple of w = 5 * ulp, where ulp = 2^(j - 57) is 2^j units of 2^-57; a
\* is the value modulo 2w (moved up by 64w to be positive), k the multiple
\* of w it is rounded to
Nearest(x, j) ==
    LET w == 5 * 2^j
        a == 2^(j + 1) * ((x.n * Pow2Mod5(54 - j)) % 5) + x.e + 64 * w
        k == a \div w
        r == a % w
        up == 2 * r > w \/ (2 * r = w /\ k % 2 = 1)
    IN  Dbl(x.n, x.e - a + w * (IF up THEN k + 1 ELSE k))

\* the result of an operation whose exact value is n/20 + e * 2^-57 / 5; the
\* exact value and its exponent are computed once
RoundDbl(n, e) ==
    IF n = 0 /\ e = 0 THEN Dbl(0, 0)
    ELSE CHOOSE d \in { Nearest(x, j) : x \in {Dbl(n, e)}, j \in {Binade(n, e) + 5} } : TRUE

\* a float literal worth n/20
DblLit(n) == RoundDbl(n, 0)

\* x + y on floats (each operand is computed once)
DblAdd(x, y) ==
    CHOOSE d \in { RoundDbl(a.n + b.n, a.e + b.e) : a \in {x}, b \in {y} } : TRUE

\* i * x for an int i and a float x
DblMulInt(i, x) == CHOOSE d \in { RoundDbl(i * a.n, i * a.e) : a \in {x} } : TRUE

\* int(x) for a float x >= 0
DblInt(x) ==
    CHOOSE i \in { (a.n \div 20) - (IF a.n % 20 = 0 /\ a.e < 0 THEN 1 ELSE 0) : a \in {x} } : TRUE

----------------------------------------------------------------------------
(* Scoring engine, continued *)

\* CATEGORY_MULTIPLIERS: 1.5, 1.0, 1.5, 0.8
CATEGORY_MULTIPLIERS(cat) ==
    CASE cat = "authenticity" -> DblLit(30)
      [] cat = "security"     -> DblLit(30)
      [] cat = "maintenance"  -> DblLit(20)
      [] cat = "reputation"   -> DblLit(16)

\* the loop of calculate_risk_score over the first n factors: total
RECURSIVE ScoreLoop(_, _)
ScoreLoop(factors, n) ==
    IF n = 0 THEN Dbl(0, 0)
    ELSE DblAdd(ScoreLoop(factors, n - 1),
                DblMulInt(severity_points(factors[n].severity),
                          CATEGORY_MULTIPLIERS(factors[n].category)))

\* the flag the loop sets: a critical factor of a high-risk category
HasCriticalHighRisk(factors) ==
    \E i \in 1..Len(factors) :
        factors[i].severity = "critical" /\ factors[i].category \in HIGH_RISK_CATEGORIES

\* the mutant of calculate_risk_score that does not cap the score
calculate_risk_score_NoCap(factors) ==
    [score |-> DblInt(ScoreLoop(factors, Len(factors))),
     has_critical_high_risk |-> HasCriticalHighRisk(factors)]

\* calculate_risk_score: (min(100, int(total)), has_critical_high_risk)
calculate_risk_score(factors) ==
    [score |-> Min(100, DblInt(ScoreLoop(factors, Len(factors)))),
     has_critical_high_risk |-> HasCriticalHighRisk(factors)]

\* severity_weight of calculate_radar_scores: 0.5, 0.3, 0.15, 0.05 and the
\* int 0
severity_weight(sev) ==
    CASE sev = "critical" -> DblLit(10)
      [] sev = "high"     -> DblLit(6)
      [] sev = "medium"   -> DblLit(3)
      [] sev = "low"      -> DblLit(1)
      [] sev = "info"     -> Dbl(0, 0)

\* the mutant of WeightLoop that keeps one weight for all the categories
RECURSIVE WeightLoop_Shared(_, _, _)
WeightLoop_Shared(factors, n, cat) ==
    IF n = 0 THEN Dbl(0, 0)
    ELSE DblAdd(WeightLoop_Shared(factors, n - 1, cat), severity_weight(factors[n].severity))

\* category_weights[cat] after the first n factors
RECURSIVE WeightLoop(_, _, _)
WeightLoop(factors, n, cat) ==
    IF n = 0 THEN Dbl(0, 0)
    ELSE IF factors[n].category = cat
         THEN DblAdd(WeightLoop(factors, n - 1, cat), severity_weight(factors[n].severity))
         ELSE WeightLoop(factors, n - 1, cat)

\* floor(100 * 0.5^(k/20)) for k = 1..86; from 87 on the value is below 5
DecayTable ==
    << 96, 93, 90, 87, 84, 81, 78, 75, 73, 70, 68, 65, 63, 61, 59, 57, 55, 53, 51, 50,
       48, 46, 45, 43, 42, 40, 39, 37, 36, 35, 34, 32, 31, 30, 29, 28, 27, 26, 25, 25,
       24, 23, 22, 21, 21, 20, 19, 18, 18, 17, 17, 16, 15, 15, 14, 14, 13, 13, 12, 12,
       12, 11, 11, 10, 10, 10, 9, 9, 9, 8, 8, 8, 7, 7, 7, 7, 6, 6, 6, 6,
       6, 5, 5, 5, 5, 5 >>

\* int(100 * (decay_base ** weight)) for a weight > 0.  100 * 0.5^w is a
\* whole number only at w = 1 (50) and w = 2 (25): there a weight that the
\* float sum left above 1 or 2 gives 49.99.. or 24.99.., one left below
\* gives 50.00.. or 25.00..; elsewhere the error of the sum is too small to
\* move the integer part.
DecayInt(weight) ==
    IF weight.n > Len(DecayTable) THEN 4    \* any value below 5
    ELSE IF weight.n \in {20, 40} /\ weight.e > 0 THEN DecayTable[weight.n] - 1
    ELSE DecayTable[weight.n]

\* calculate_radar_scores: 100 for a weight of 0, else
\* max(5, int(100 * (decay_base ** weight)))
calculate_radar_scores(factors) ==
    [cat \in Categories |->
        LET weight == WeightLoop(factors, Len(factors), cat)
        IN  IF weight = Dbl(0, 0) THEN 100 ELSE Max(5, DecayInt(weight))]

\* the mutant of get_risk_level whose critical-finding rule answers critical
get_risk_level_ForcedCritical(score, has_critical_high_risk) ==
    IF has_critical_high_risk /\ score < 51 THEN "critical"
    ELSE IF score >= 76 THEN "critical"
    ELSE IF score >= 51 THEN "high"
    ELSE IF score >= 26 THEN "medium"
    ELSE "low"

\* the mutant of get_risk_level that maps the score alone
get_risk_level_NoEscalation(score, has_critical_high_risk) ==
    IF score >= 76 THEN "critical"
    ELSE IF score >= 51 THEN "high"
    ELSE IF score >= 26 THEN "medium"
    ELSE "low"

get_risk_level(score, has_critical_high_risk) ==
    IF has_critical_high_risk /\ score < 51 THEN "high"
    ELSE IF score >= 76 THEN "critical"
    ELSE IF score >= 51 THEN "high"
    ELSE IF score >= 26 THEN "medium"
    ELSE "low"

----------------------------------------------------------------------------
(* Python values, continued *)

PyDict(fields) == [type |-> "dict"] @@ fields

\* d.get(key, default)
Get(d, key, default) == IF key \in DOMAIN d THEN d[key] ELSE default

\* truthiness of a value: None, [] and {} are falsy
PyTruthy(x) ==
    CASE x.type = "none" -> FALSE
      [] x.type = "list" -> x.items # <<>>
      [] x.type = "dict" -> DOMAIN x # {"type"}
      [] x.type = "int"  -> x.n # 0
      [] OTHER           -> TRUE

PyInt(n) == [type |-> "int", n |-> n]

\* the items of a list, nothing for another value
Items(x) == IF x.type = "list" THEN x.items ELSE <<>>

----------------------------------------------------------------------------
(* The services the audit talks to: what the npm registry, the downloads    *)
(* API, the GitHub API and the attestations endpoint hold for the packages  *)
(* of the model.  Dates are seconds relative to the start of the process.   *)

SecondsPerDay == 86400

V_1_0_0 == VerText(1, 0, 0)

V_9_9_9 == VerText(9, 9, 9)

LodashVersionData ==
    [repository |-> "git+https://github.com/lodash/lodash.git",
     maintainers |-> <<"jdalton", "mathias">>,
     license |-> "MIT", scripts |-> <<>>, dependencies |-> 0]

\* a package published three days ago, without repository, maintainers or
\* license, whose postinstall script downloads with curl
EvilVersionData ==
    [repository |-> "", maintainers |-> <<>>, license |-> "",
     scripts |-> <<[hook |-> "postinstall", dangerous |-> <<"curl">>]>>,
     dependencies |-> 0]

\* a package published 400 days ago and left alone: without maintainers or
\* license, naming the repository of lodash as its own
OrphanVersionData ==
    [repository |-> "git+https://github.com/lodash/lodash.git",
     maintainers |-> <<>>, license |-> "", scripts |-> <<>>, dependencies |-> 0]

\* the registry documents: dist-tags.latest, versions (keys in order, and
\* the data of each), time.created and the package-level fields; evil-pkg
\* was published half an hour short of seven days before the start
RegistryDocs ==
    [p \in {"lodash", "evil-pkg", "orphan-pkg"} |->
        IF p = "orphan-pkg"
        THEN PyDict([latest |-> V_1_0_0,
                     version_keys |-> <<V_1_0_0>>,
                     versions |-> [v \in {V_1_0_0} |-> OrphanVersionData],
                     repository |-> "git+https://github.com/lodash/lodash.git", maintainers |-> <<>>, license |-> "",
                     created |-> PyInt(0 - 400 * SecondsPerDay)])
        ELSE IF p = "lodash"
        THEN PyDict([latest |-> V_4_17_21,
                     version_keys |-> <<V_4_17_11, V_4_17_21>>,
                     versions |-> [v \in {V_4_17_11, V_4_17_21} |-> LodashVersionData],
                     repository |-> "git+https://github.com/lodash/lodash.git",
                     maintainers |-> <<"jdalton", "mathias">>,
                     license |-> "MIT",
                     created |-> PyInt(0 - 4000 * SecondsPerDay)])
        ELSE PyDict([latest |-> V_1_0_0,
                     version_keys |-> <<V_1_0_0>>,
                     versions |-> [v \in {V_1_0_0} |-> EvilVersionData],
                     repository |-> "", maintainers |-> <<>>, license |-> "",
                     created |-> PyInt(1800 - 7 * SecondsPerDay)])]

\* the packages audits are requested for; the last one is not in the registry
Packages == {"lodash", "evil-pkg", "no-such-pkg"}

\* the responses to GET registry.npmjs.org/{name}
RegistryResponses(package_name) ==
    IF package_name \in DOMAIN RegistryDocs
    THEN { [kind |-> "response", status |-> 200, json |-> RegistryDocs[package_name]],
           [kind |-> "response", status |-> 503, json |-> PyNone],
           [kind |-> "timeout", status |-> 0, json |-> PyNone] }
    ELSE { [kind |-> "response", status |-> 404, json |-> PyNone],
           [kind |-> "timeout", status |-> 0, json |-> PyNone] }

\* weekly downloads the downloads API reports
WeeklyDownloads(package_name) ==
    CASE package_name = "lodash"   -> 50000000
      [] package_name = "evil-pkg" -> 250000
      [] OTHER                     -> 0

\* the responses to GET api.npmjs.org/downloads/point/last-week/{name}
DownloadResponses(package_name) ==
    { [kind |-> "response", status |-> 200, downloads |-> WeeklyDownloads(package_name)],
      [kind |-> "response", status |-> 404, downloads |-> 0],
      [kind |-> "response", status |-> 500, downloads |-> 0],
      [kind |-> "timeout", status |-> 0, downloads |-> 0] }

\* the responses to GET api.github.com/repos/{owner}/{repo}
GithubResponses ==
    { [kind |-> "response", status |-> 200, text |-> "",
       json |-> [stargazers_count |-> 58000, forks_count |-> 7000, archived |-> FALSE]],
      [kind |-> "response", status |-> 404, text |-> "", json |-> PyNone],
      [kind |-> "response", status |-> 403, text |-> "rate limit", json |-> PyNone],
      [kind |-> "timeout", status |-> 0, text |-> "", json |-> PyNone] }

\* an attestation is modelled by what analyze_provenance reads of it: whether
\* the predicate type mentions slsa, whether the build type of its decoded
\* payload mentions slsa, and whether the predicate type mentions publish
Attestation(slsa, slsa_build, publish) ==
    [slsa |-> slsa, slsa_build |-> slsa_build, publish |-> publish]

\* the responses to GET registry.npmjs.org/-/npm/v1/attestations/{name}@{version}
ProvenanceResponses(package_name) ==
    IF package_name = "lodash"
    THEN { [kind |-> "response", status |-> 200,
            json |-> PyDict([attestations |-> <<Attestation(TRUE, FALSE, FALSE), Attestation(FALSE, FALSE, TRUE)>>])],
           [kind |-> "response", status |-> 200,
            json |-> PyDict([attestations |-> <<Attestation(TRUE, FALSE, FALSE)>>])],
           [kind |-> "response", status |-> 404, json |-> PyNone],
           [kind |-> "timeout", status |-> 0, json |-> PyNone] }
    ELSE { [kind |-> "response", status |-> 404, json |-> PyNone],
           [kind |-> "response", status |-> 200, json |-> PyDict([attestations |-> <<>>])],
           [kind |-> "timeout", status |-> 0, json |-> PyNone] }

----------------------------------------------------------------------------
(* The source clients: services/npm_client.py, services/github_client.py,   *)
(* services/provenance_client.py.  Each operator gives what the coroutine   *)
(* returns, or the exception it raises (a PyExc value), for a response.     *)

\* what the try block of a client raises for a response, "" if nothing:
\* the explicit raise for the statuses in own_statuses, then
\* response.raise_for_status()
RaisedInTry(response, own_statuses) ==
    CASE response.kind = "timeout"                   -> "TimeoutException"
      [] response.status \in DOMAIN own_statuses     -> own_statuses[response.status]
      [] response.status >= 400                      -> "HTTPStatusError"
      [] OTHER                                       -> ""

\* fetch_package_metadata: the PackageNotFoundError raised in the try block
\* is neither a TimeoutException nor an HTTPStatusError, so the last except
\* clause catches it
fetch_package_metadata(package_name, response) ==
    LET raised == RaisedInTry(response, [s \in {404} |-> "PackageNotFoundError"])
    IN  CASE raised = ""                 -> response.json
          [] raised = "TimeoutException" -> PyExc("RegistryError")
          [] raised = "HTTPStatusError"  ->
                IF response.status = 404 THEN PyExc("PackageNotFoundError")
                ELSE PyExc("RegistryError")
          [] OTHER                       -> PyExc("RegistryError")

\* fetch_download_stats: zero downloads on 404 and on any exception
fetch_download_stats(package_name, response) ==
    IF response.kind = "response" /\ response.status = 404
    THEN PyDict([downloads |-> 0])
    ELSE IF RaisedInTry(response, [s \in {} |-> ""]) = ""
         THEN PyDict([downloads |-> response.downloads])
         ELSE PyDict([downloads |-> 0])

\* repo_url.replace("git+", "").replace("git://", "https://")
CleanRepoUrl(repo_url) ==
    CASE repo_url = "git+https://github.com/lodash/lodash.git"
            -> "https://github.com/lodash/lodash.git"
      [] OTHER -> repo_url

\* "github.com" in repo_url
MentionsGithub(repo_url) == repo_url \in {"https://github.com/lodash/lodash.git"}

\* parse_github_url: (owner, repo), or None (the empty tuple here)
parse_github_url(repo_url) ==
    CASE repo_url = "https://github.com/lodash/lodash.git" ->
              << <<"l", "o", "d", "a", "s", "h">>, <<"l", "o", "d", "a", "s", "h">> >>
      [] OTHER -> <<>>

\* cache_key = f"repo:{owner}/{repo}", on texts
RepoCacheKey(parsed) == <<"r", "e", "p", "o", ":">> \o parsed[1] \o <<"/">> \o parsed[2]

\* cache_key = f"advisories:{package_name}" of fetch_security_advisories,
\* which shares the cache of fetch_repository_data
AdvisoriesCacheKey(package_name) ==
    <<"a", "d", "v", "i", "s", "o", "r", "i", "e", "s", ":">> \o package_name

\* fetch_repository_data from the response on: the result dict, or the
\* exception that leaves the coroutine
github_result(response) ==
    LET raised == CASE response.kind = "timeout" -> "TimeoutException"
                    [] response.status = 404     -> "RepositoryNotFoundError"
                    [] response.status = 403     ->
                          IF response.text = "rate limit" THEN "RateLimitError"
                          ELSE "Exception"
                    [] response.status >= 400    -> "HTTPStatusError"
                    [] OTHER                     -> ""
    IN  CASE raised = "" ->
                PyDict([stars    |-> Get(response.json, "stargazers_count", 0),
                        forks    |-> Get(response.json, "forks_count", 0),
                        archived |-> Get(response.json, "archived", FALSE)])
          [] raised \in {"RateLimitError", "RepositoryNotFoundError"} -> PyExc(raised)
          [] OTHER -> PyExc("Exception")

\* fetch_provenance_attestations: the JSON of a 200, None otherwise
fetch_provenance_attestations(response) ==
    IF response.kind = "response" /\ response.status = 200 THEN response.json
    ELSE PyNone

\* provenance_client.analyze_provenance: the verification result
NoProvenance ==
    PyDict([has_provenance |-> FALSE, is_verified |-> FALSE, transparency_log |-> FALSE])

analyze_provenance(attestations) ==
    IF ~ PyTruthy(attestations) THEN NoProvenance
    ELSE LET attestation_list == Get(attestations, "attestations", <<>>)
         IN  IF attestation_list = <<>> THEN NoProvenance
             ELSE PyDict([has_provenance |-> TRUE,
                          is_verified |->
                              \E i \in 1..Len(attestation_list) :
                                  \/ attestation_list[i].slsa /\ attestation_list[i].slsa_build
                                  \/ attestation_list[i].publish,
                          transparency_log |-> TRUE])

----------------------------------------------------------------------------
(* Finding analyzers: services/analyzer.py *)

\* a RiskFactor: name, severity, category, and in ref the identifier a
\* vulnerability finding carries in its name
RiskFactor(name, severity, category) ==
    [name |-> name, severity |-> severity, category |-> category, ref |-> ""]

\* utils/typosquat.py.  Package names are texts: sequences of one-character
\* strings, compared character by character as difflib does.
LowerLetters ==
    <<"a", "b", "c", "d", "e", "f", "g", "h", "i", "j", "k", "l", "m", "n", "o", "p", "q", "r", "s", "t", "u", "v", "w", "x", "y", "z">>

UpperLetters ==
    <<"A", "B", "C", "D", "E", "F", "G", "H", "I", "J", "K", "L", "M", "N", "O", "P", "Q", "R", "S", "T", "U", "V", "W", "X", "Y", "Z">>

\* str.lower() and str.upper() on the characters of package names
LowerChar(c) ==
    IF \E i \in 1..26 : UpperLetters[i] = c
    THEN LowerLetters[CHOOSE i \in 1..26 : UpperLetters[i] = c]
    ELSE c

UpperChar(c) ==
    IF \E i \in 1..26 : LowerLetters[i] = c
    THEN UpperLetters[CHOOSE i \in 1..26 : LowerLetters[i] = c]
    ELSE c

LowerText(s) == [i \in 1..Len(s) |-> LowerChar(s[i])]

UpperText(s) == [i \in 1..Len(s) |-> UpperChar(s[i])]

\* str.replace(old, new) for one-character old and new
Replace(s, old, new) == [i \in 1..Len(s) |-> IF s[i] = old THEN new ELSE s[i]]

\* the entries of POPULAR_PACKAGES the model keeps, lower-cased as the
\* module does on import: plain, hyphenated, very short and scoped names
POPULAR_PACKAGES ==
    << <<"l", "o", "d", "a", "s", "h">>,
       <<"r", "e", "a", "c", "t">>,
       <<"r", "e", "a", "c", "t", "-", "d", "o", "m">>,
       <<"e", "x", "p", "r", "e", "s", "s">>,
       <<"v", "u", "e">>,
       <<"w", "s">>,
       <<"c", "o", "r", "s">>,
       <<"f", "s", "-", "e", "x", "t", "r", "a">>,
       <<"@", "t", "y", "p", "e", "s", "/", "n", "o", "d", "e">>,
       <<"@", "b", "a", "b", "e", "l", "/", "c", "o", "r", "e">>,
       <<"@", "b", "a", "b", "e", "l", "/", "p", "r", "e", "s", "e", "t", "-", "t", "y", "p", "e", "s", "c", "r", "i", "p", "t">> >>

IsPopular(name) == \E i \in 1..Len(POPULAR_PACKAGES) : POPULAR_PACKAGES[i] = name

\* normalize_package_name: lower-case, strip, drop "@scope/", "_" -> "-"
normalize_package_name(package_name) ==
    LET normalized == Strip(LowerText(package_name))
        slashes    == { i \in 1..Len(normalized) : normalized[i] = "/" }
        unscoped   == IF normalized # <<>> /\ Head(normalized) = "@" /\ slashes # {}
                      THEN SubSeq(normalized,
                                  (CHOOSE i \in slashes : \A j \in slashes : i <= j) + 1,
                                  Len(normalized))
                      ELSE normalized
    IN  Replace(unscoped, "_", "-")

\* the length of the common run of a from i and b from j
RECURSIVE Run(_, _, _, _)
Run(a, b, i, j) ==
    IF i > Len(a) \/ j > Len(b) \/ a[i] # b[j] THEN 0
    ELSE 1 + Run(a, b, i + 1, j + 1)

\* SequenceMatcher.find_longest_match without junk: the longest common
\* block, the one starting earliest in a, then earliest in b
find_longest_match(a, b) ==
    LET Longest(blocks) ==
            CHOOSE size \in { x[3] : x \in blocks } : \A y \in blocks : y[3] <= size
        Earliest(longest) ==
            CHOOSE x \in longest :
                \A y \in longest : x[1] < y[1] \/ (x[1] = y[1] /\ x[2] <= y[2])
        Best(blocks) ==
            CHOOSE x \in { Earliest({ y \in blocks : y[3] = size })
                           : size \in {Longest(blocks)} } : TRUE
    IN  CHOOSE m \in
            { [i |-> x[1], j |-> x[2], size |-> x[3]]
              : x \in { Best(blocks)
                        : blocks \in {{ <<i, j, Run(a, b, i, j)>>
                                        : i \in 1..Len(a), j \in 1..Len(b) }} } } : TRUE

\* SequenceMatcher.get_matching_blocks: the characters matched, found by
\* taking the longest block and recursing on both sides of it
RECURSIVE Matched(_, _)
Matched(a, b) ==
    IF a = <<>> \/ b = <<>> THEN 0
    ELSE CHOOSE n \in
             { IF x.size = 0 THEN 0
               ELSE x.size
                    + Matched(SubSeq(a, 1, x.i - 1), SubSeq(b, 1, x.j - 1))
                    + Matched(SubSeq(a, x.i + x.size, Len(a)),
                              SubSeq(b, x.j + x.size, Len(b)))
               : x \in {find_longest_match(a, b)} } : TRUE

\* SequenceMatcher(None, a, b).ratio() = 2.0 * matches / length, kept as the
\* fraction matches2 / length (1.0 for two empty texts)
Ratio(a, b) ==
    IF Len(a) + Len(b) = 0 THEN [matches2 |-> 1, length |-> 1]
    ELSE [matches2 |-> 2 * Matched(a, b), length |-> Len(a) + Len(b)]

\* ratio >= 0.80: the quotient is correctly rounded, so it compares with the
\* double 0.8 as the fraction does with 4/5
AtLeastThreshold(ratio) == 5 * ratio.matches2 >= 4 * ratio.length

\* x.ratio >= y.ratio
RatioGeq(x, y) == x.matches2 * y.length >= y.matches2 * x.length

\* matches.sort(key=ratio, reverse=True): stable, the highest ratio first
RECURSIVE SortMatches(_)
SortMatches(matches) ==
    IF matches = <<>> THEN <<>>
    ELSE LET sorted == SortMatches(SubSeq(matches, 1, Len(matches) - 1))
             m      == matches[Len(matches)]
             ahead  == { i \in 1..Len(sorted) : RatioGeq(sorted[i].ratio, m.ratio) }
             k      == IF ahead = {} THEN 0 ELSE CHOOSE i \in ahead : \A j \in ahead : j <= i
         IN  SubSeq(sorted, 1, k) \o <<m>> \o SubSeq(sorted, k + 1, Len(sorted))

\* check_typosquatting(package_name, 0.80): the popular packages at least
\* 80% similar to the normalized name, closest first; none for a name that
\* is in the list after normalization
check_typosquatting(package_name) ==
    LET Scored(normalized) ==
            [i \in 1..Len(POPULAR_PACKAGES) |->
                [name  |-> POPULAR_PACKAGES[i],
                 ratio |-> Ratio(normalized, POPULAR_PACKAGES[i])]]
    IN  CHOOSE matches \in
            { IF IsPopular(normalized) THEN <<>>
              ELSE SortMatches(SelectSeq(Scored(normalized),
                                         LAMBDA m : AtLeastThreshold(m.ratio)))
              : normalized \in {normalize_package_name(package_name)} } : TRUE

analyze_typosquatting(package_name) ==
    CHOOSE findings \in
        { [i \in 1..Min(3, Len(matches)) |->
              RiskFactor("Typosquatting Detected", "critical", "authenticity")]
          : matches \in {check_typosquatting(package_name)} } : TRUE

\* analyze_typosquatting(name) for the names an audit can be asked about:
\* the function is pure, so its values are tabulated once
TyposquattingOf ==
    [package_name \in Packages \cup DOMAIN RegistryDocs \cup {""} |->
        analyze_typosquatting(NameChars(package_name))]

DANGEROUS_SCRIPTS ==
    {"preinstall", "install", "postinstall", "preuninstall", "uninstall", "postuninstall"}

\* the findings of one lifecycle script: up to 3 dangerous commands
RECURSIVE HookFindings(_)
HookFindings(hooks) ==
    IF hooks = <<>> THEN <<>>
    ELSE [i \in 1..Min(3, Len(Head(hooks).dangerous)) |->
             RiskFactor("Dangerous Command in Script", "critical", "security")]
         \o HookFindings(Tail(hooks))

analyze_install_scripts(package_data) ==
    LET scripts == Get(package_data, "scripts", <<>>)
        dangerous_hooks == SelectSeq(scripts, LAMBDA s : s.hook \in DANGEROUS_SCRIPTS)
    IN  IF dangerous_hooks = <<>> THEN <<>>
        ELSE <<RiskFactor("Install Scripts Present", "medium", "security")>>
             \o HookFindings(dangerous_hooks)

\* (now - created).days, for a creation date in seconds
AgeDays(created, t) == (t - created) \div SecondsPerDay

\* a creation date that date_parser.parse reads as the instant n
PyDate(n) == [type |-> "date", n |-> n]

\* a creation date that date_parser.parse rejects
UnparsableDate == [type |-> "str", text |-> "soon"]

\* analyze_package_age with the boundaries in the lower-age bucket
analyze_package_age_Inclusive(created, t) ==
    IF ~ PyTruthy(created) THEN <<>>
    ELSE IF "n" \notin DOMAIN created THEN <<>>
    ELSE LET age_days == Max(0, AgeDays(created.n, t))
         IN  IF age_days <= 7
             THEN <<RiskFactor("Very New Package", "critical", "reputation")>>
             ELSE IF age_days <= 30
             THEN <<RiskFactor("New Package", "high", "reputation")>>
             ELSE IF age_days <= 90
             THEN <<RiskFactor("Recent Package", "medium", "reputation")>>
             ELSE <<>>

\* analyze_package_age at time t; created is None for a document without
\* time.created; date_parser.parse raises on a text that is no date and the
\* exception is swallowed
analyze_package_age(created, t) ==
    IF ~ PyTruthy(created) THEN <<>>
    ELSE IF "n" \notin DOMAIN created THEN <<>>
    ELSE LET age_days == Max(0, AgeDays(created.n, t))
         IN  IF age_days < 7
             THEN <<RiskFactor("Very New Package", "critical", "reputation")>>
             ELSE IF age_days < 30
             THEN <<RiskFactor("New Package", "high", "reputation")>>
             ELSE IF age_days < 90
             THEN <<RiskFactor("Recent Package", "medium", "reputation")>>
             ELSE <<>>

analyze_maintainers(maintainers, package_age_days) ==
    IF Len(maintainers) = 0
    THEN <<RiskFactor("No Maintainers", "critical", "maintenance")>>
    ELSE IF Len(maintainers) = 1
    THEN <<RiskFactor("Single Maintainer", "low", "maintenance")>>
    ELSE <<>>

\* analyze_repository with 5 stars counted as few
analyze_repository_StarsInclusive(package_repo, github_data) ==
    IF package_repo = "" THEN <<RiskFactor("No Repository Link", "medium", "authenticity")>>
    ELSE IF ~ PyTruthy(github_data)
    THEN <<RiskFactor("Repository Not Verified", "low", "authenticity")>>
    ELSE (IF Get(github_data, "archived", FALSE)
          THEN <<RiskFactor("Repository Archived", "high", "maintenance")>> ELSE <<>>)
         \o
         (IF Get(github_data, "stars", 0) <= 5
          THEN <<RiskFactor("Low Repository Stars", "info", "reputation")>> ELSE <<>>)

\* the mutant of analyze_repository that is silent about unresolved data
analyze_repository_SilentOnMissing(package_repo, github_data) ==
    IF package_repo = "" THEN <<RiskFactor("No Repository Link", "medium", "authenticity")>>
    ELSE IF ~ PyTruthy(github_data) THEN <<>>
    ELSE (IF Get(github_data, "archived", FALSE)
          THEN <<RiskFactor("Repository Archived", "high", "maintenance")>> ELSE <<>>)
         \o
         (IF Get(github_data, "stars", 0) < 5
          THEN <<RiskFactor("Low Repository Stars", "info", "reputation")>> ELSE <<>>)

analyze_repository(package_repo, github_data) ==
    IF package_repo = "" THEN <<RiskFactor("No Repository Link", "medium", "authenticity")>>
    ELSE IF ~ PyTruthy(github_data)
    THEN <<RiskFactor("Repository Not Verified", "low", "authenticity")>>
    ELSE (IF Get(github_data, "archived", FALSE)
          THEN <<RiskFactor("Repository Archived", "high", "maintenance")>> ELSE <<>>)
         \o
         (IF Get(github_data, "stars", 0) < 5
          THEN <<RiskFactor("Low Repository Stars", "info", "reputation")>> ELSE <<>>)

\* analyze_downloads; weekly_downloads is None or a number
analyze_downloads(weekly_downloads, age_days) ==
    IF weekly_downloads.type = "none" THEN <<>>
    ELSE IF age_days < 30 /\ weekly_downloads.n > 100000
    THEN <<RiskFactor("Suspicious Download Spike", "high", "reputation")>>
    ELSE IF age_days > 365 /\ weekly_downloads.n < 100
    THEN <<RiskFactor("Low Adoption", "info", "reputation")>>
    ELSE <<>>

\* severity_map.get(severity_str, Severity.MEDIUM)
AdvisorySeverity(severity_str) ==
    IF severity_str \in {"critical", "high", "medium", "low"} THEN severity_str
    ELSE "medium"

\* id_suffix of a vulnerability finding: the CVE id if any, else the OSV id
AdvisoryRef(advisory) ==
    IF advisory.cve_id # "" THEN advisory.cve_id ELSE advisory.id

analyze_vulnerabilities(advisories) ==
    [i \in 1..Len(Items(advisories)) |->
        [RiskFactor("Known Vulnerability",
                    AdvisorySeverity(Lower(Items(advisories)[i].severity)),
                    "security")
            EXCEPT !.ref = AdvisoryRef(Items(advisories)[i])]]

analyze_dependencies(package_data) ==
    LET dep_count == Get(package_data, "dependencies", 0)
    IN  IF dep_count > 100
        THEN <<RiskFactor("Excessive Dependencies", "high", "security")>>
        ELSE IF dep_count > 50
        THEN <<RiskFactor("High Dependency Count", "medium", "security")>>
        ELSE <<>>

\* license_info.lower().strip() on the licenses of the model
LicenseLower(license_info) ==
    CASE license_info = "MIT"        -> "mit"
      [] license_info = "GPL-3.0"    -> "gpl-3.0"
      [] license_info = "UNLICENSED" -> "unlicensed"
      [] OTHER                       -> license_info

COPYLEFT_LICENSES ==
    {"gpl-2.0", "gpl-3.0", "gpl-2.0-only", "gpl-3.0-only", "lgpl-2.0", "lgpl-2.1",
     "lgpl-3.0", "agpl-3.0", "agpl-3.0-only", "mpl-2.0", "eupl-1.2", "osl-3.0",
     "cc-by-sa-4.0"}

analyze_license(license_info) ==
    IF license_info = ""
    THEN <<RiskFactor("No License Specified", "medium", "authenticity")>>
    ELSE IF LicenseLower(license_info) \in {"unlicensed", "none", "proprietary", "see license"}
    THEN <<RiskFactor("Restrictive License", "high", "authenticity")>>
    ELSE IF LicenseLower(license_info) \in COPYLEFT_LICENSES
    THEN <<RiskFactor("Copyleft License", "info", "authenticity")>>
    ELSE <<>>

\* analyzer.analyze_provenance, imported by the router as
\* analyze_provenance_factors
analyze_provenance_factors(provenance_data) ==
    LET has_provenance   == Get(provenance_data, "has_provenance", FALSE)
        is_verified      == Get(provenance_data, "is_verified", FALSE)
        transparency_log == Get(provenance_data, "transparency_log", FALSE)
    IN  IF ~ has_provenance
        THEN <<RiskFactor("No Sigstore Provenance", "low", "authenticity")>>
        ELSE IF transparency_log /\ is_verified
        THEN <<RiskFactor("Sigstore Provenance Verified", "info", "authenticity")>>
        ELSE IF has_provenance /\ ~ is_verified
        THEN <<RiskFactor("Provenance Present (Unverified)", "info", "authenticity")>>
        ELSE <<>>

----------------------------------------------------------------------------
(* Fetch orchestrator: audit_package of routers/audit.py.  One audit runs   *)
(* at a time; its coroutines run on one event loop, so each step below is   *)
(* the code from one await to the next.  A task is a coroutine handed to    *)
(* asyncio.gather: not created ("none"), waiting for its response           *)
(* ("pending"), or finished ("done") with the value it returned or the      *)
(* exception it raised.                                                     *)

Stage1Tasks == {"meta", "dl"}

Stage2Tasks == {"repo", "vuln", "allv", "prov"}

NoTask == [st |-> "none", outcome |-> "", result |-> PyNone]

PendingTask == [st |-> "pending", outcome |-> "", result |-> PyNone]

DoneTask(outcome, result) == [st |-> "done", outcome |-> outcome, result |-> result]

\* how a response is referred to: "ok", "not_found", "timeout" or "failed"
Outcome(response) ==
    CASE response.kind = "timeout" -> "timeout"
      [] response.status = 200     -> "ok"
      [] response.status = 404     -> "not_found"
      [] OTHER                     -> "failed"

\* the requests: a package name and an optional version
Requests ==
    { [package_name |-> "lodash", version |-> NoneText],
      [package_name |-> "lodash", version |-> V_4_17_11],
      [package_name |-> "lodash", version |-> V_9_9_9],
      [package_name |-> "evil-pkg", version |-> NoneText],
      [package_name |-> "no-such-pkg", version |-> NoneText] }

NoRequest == [package_name |-> "", version |-> NoneText]

AuditIdle ==
    [pc |-> "idle", request |-> NoRequest,
     tasks |-> [t \in Stage1Tasks \cup Stage2Tasks |-> NoTask],
     sent |-> [t \in Stage1Tasks \cup Stage2Tasks |-> 0],
     target_version |-> NoneText, repo_url |-> "", out |-> PyNone]

\* the mutant of gather that returns when the first task has finished
gather_done_FirstCompleted(tasks, names) == \E t \in names : tasks[t].st = "done"

\* the mutant of gather that waits until every task has returned a value
gather_done_NoException(tasks, names) ==
    \A t \in names : tasks[t].st # "pending" /\ ~ IsException(tasks[t].result)

\* await asyncio.gather(...): every task handed to it has finished
gather_done(tasks, names) == \A t \in names : tasks[t].st # "pending"

\* the mutant that hands an exception on as the field
Isolated_Not(result, default) == result

\* if not isinstance(result, Exception): field = result
Isolated(result, default) == IF IsException(result) THEN default ELSE result

\* raise HTTPException(status_code, detail={"error": ...})
HTTPException(status_code, error) ==
    [kind |-> "error", status_code |-> status_code, error |-> error]

\* the audit after its coroutines were handed to gather: a task that is
\* pending now and was not before has sent its request
Issued(a, tasks) ==
    [a EXCEPT !.tasks = tasks,
              !.sent = [t \in DOMAIN tasks |->
                          IF tasks[t].st = "pending" /\ a.tasks[t].st # "pending"
                          THEN a.sent[t] + 1 ELSE a.sent[t]]]

\* the mutant of Finish in which a client sends its request a second time
\* after a failure or a timeout
Finish_RetryOnce(a, x, outcome, result) ==
    IF outcome \in {"timeout", "failed", "error"} /\ a.sent[x] < 2
    THEN [a EXCEPT !.sent[x] = @ + 1]
    ELSE [a EXCEPT !.tasks[x] = DoneTask(outcome, result)]

\* the audit after the client of task x returned or raised: no client
\* sends its request again
Finish(a, x, outcome, result) == [a EXCEPT !.tasks[x] = DoneTask(outcome, result)]

\* the mutant of InvalidVersion that accepts every version
InvalidVersion_Never(version, versions) == FALSE

\* request.version and request.version not in versions
InvalidVersion(version, versions) == Truthy(version) /\ version \notin DOMAIN versions

\* nothing is kept of the previous audit
RepOff == [on |-> FALSE, recorded |-> FALSE, request |-> NoRequest,
           tasks |-> AuditIdle.tasks, out |-> PyNone]

\* the previous audit a, kept
Recorded(a) == [on |-> TRUE, recorded |-> TRUE, request |-> a.request,
                tasks |-> a.tasks, out |-> a.out]

\* the upstream answers again what it answered to the previous audit
Replayed(x, result) == rep.recorded => result = rep.tasks[x].result

\* POST /api/audit up to the first gather: both stage-1 requests are issued.
\* When one request is audited repeatedly, the audit that has ended is kept
\* and the request is the same again.
StartAuditOf(requests) ==
    /\ au.pc \in {"idle", "done", "error"}
    /\ audits < (IF rep.on THEN MaxRepeats ELSE MaxAudits)
    /\ \E request \in requests :
          /\ rep.recorded \/ (rep.on /\ au.pc # "idle") => request = au.request
          /\ au' = Issued([AuditIdle EXCEPT !.pc = "stage1", !.request = request],
                          [t \in DOMAIN AuditIdle.tasks |->
                              IF t \in Stage1Tasks THEN PendingTask ELSE NoTask])
    /\ rep' = IF rep.on /\ au.pc # "idle" THEN Recorded(au) ELSE rep
    /\ audits' = audits + 1
    /\ UNCHANGED <<github_cache, rv, sc, cacheVars, restVars>>

\* an audit of the packages of the registry, or of one it does not hold
StartAudit == StartAuditOf(Requests)

\* the requests of the end-to-end scenario: the package without maintainers
\* and license, at its latest version or at that version by number
ScenarioRequests ==
    { [package_name |-> "orphan-pkg", version |-> NoneText],
      [package_name |-> "orphan-pkg", version |-> V_1_0_0] }

\* an audit of the scenario package
StartScenario == StartAuditOf(ScenarioRequests)

\* fetch_package_metadata from the response to its return
MetaRespond ==
    /\ au.tasks["meta"].st = "pending"
    /\ \E response \in RegistryResponses(au.request.package_name) :
          LET result == fetch_package_metadata(au.request.package_name, response)
          IN  /\ Replayed("meta", result)
              /\ au' = Finish(au, "meta", Outcome(response), result)
    /\ UNCHANGED <<github_cache, audits, rep, rv, sc, cacheVars, restVars>>

\* fetch_download_stats from the response to its return
DlRespond ==
    /\ au.tasks["dl"].st = "pending"
    /\ \E response \in DownloadResponses(au.request.package_name) :
          LET result == fetch_download_stats(au.request.package_name, response)
          IN  /\ Replayed("dl", result)
              /\ au' = Finish(au, "dl", Outcome(response), result)
    /\ UNCHANGED <<github_cache, audits, rep, rv, sc, cacheVars, restVars>>

UnknownText == <<"u", "n", "k", "n", "o", "w", "n">>

EmptyPyDict == [type |-> "dict"]

\* npm_data.get("versions", {}) of a document without versions
NoVersions == [v \in {} |-> EmptyPyDict]

\* versions.get(target_version, {})
LatestVersionData(npm_data, target_version) ==
    LET versions == Get(npm_data, "versions", NoVersions)
    IN  IF target_version \in DOMAIN versions THEN versions[target_version]
        ELSE EmptyPyDict

\* latest_version_data.get(key) or npm_data.get(key), for a text-like field
\* whose absence is the empty value
VersionOrPackage(latest_version_data, npm_data, key, empty) ==
    IF Get(latest_version_data, key, empty) # empty
    THEN latest_version_data[key]
    ELSE Get(npm_data, key, empty)

\* the mutant of RepoStart that loses the value of a cache hit
RepoStart_HitLost(repo_url, cache, t) ==
    LET parsed == parse_github_url(repo_url)
    IN  IF parsed = <<>>
        THEN [task |-> DoneTask("invalid", PyExc("ValueError")), cache |-> cache]
        ELSE LET g == TTLCache_get(cache, RepoCacheKey(parsed), t)
             IN  IF PyTruthy(g.ret)
                 THEN [task |-> DoneTask("cached", PyNone), cache |-> g.cache]
                 ELSE [task |-> PendingTask, cache |-> g.cache]

\* the first step of fetch_repository_data: the URL is parsed and the cache
\* is looked up; the task it leaves and the cache afterwards
RepoStart(repo_url, cache, t) ==
    LET parsed == parse_github_url(repo_url)
    IN  IF parsed = <<>>
        THEN [task |-> DoneTask("invalid", PyExc("ValueError")), cache |-> cache]
        ELSE LET g == TTLCache_get(cache, RepoCacheKey(parsed), t)
             IN  IF PyTruthy(g.ret)
                 THEN [task |-> DoneTask("cached", g.ret), cache |-> g.cache]
                 ELSE [task |-> PendingTask, cache |-> g.cache]

\* the first step of fetch_vulnerabilities: the cache is looked up
VulnStart(package_name, version, cache, t) ==
    LET g == TTLCache_get(cache, OsvCacheKey(package_name, version), t)
    IN  IF g.ret # PyNone
        THEN [task |-> DoneTask("cached", g.ret), cache |-> g.cache]
        ELSE [task |-> PendingTask, cache |-> g.cache]

\* the mutant of Raise in which the stage-2 coroutines were already handed
\* to the event loop when the exception is raised
Raise_AfterStart(a, exception) ==
    [Issued(a, [a.tasks EXCEPT !["vuln"] = PendingTask,
                               !["allv"] = PendingTask,
                               !["prov"] = PendingTask])
        EXCEPT !.pc = "error", !.out = exception]

\* raise HTTPException(...) after the first gather: the audit ends there
Raise(a, exception) == [a EXCEPT !.pc = "error", !.out = exception]

\* audit_package from the first gather to the second: the registry errors,
\* the version check, the repository URL, and the first step of every
\* stage-2 coroutine in the order they are handed to gather
Stage1Join ==
    /\ au.pc = "stage1"
    /\ gather_done(au.tasks, Stage1Tasks)
    /\ LET npm_data       == au.tasks["meta"].result
           request        == au.request
           latest_version == Get(npm_data, "latest", UnknownText)
           versions       == Get(npm_data, "versions", NoVersions)
           target_version == IF Truthy(request.version) THEN request.version
                             ELSE latest_version
           latest_version_data == LatestVersionData(npm_data, target_version)
           repo_info      == VersionOrPackage(latest_version_data, npm_data, "repository", "")
           repo_url       == IF repo_info # "" THEN CleanRepoUrl(repo_info) ELSE ""
           with_github    == repo_url # "" /\ MentionsGithub(repo_url)
           repo           == IF with_github THEN RepoStart(repo_url, github_cache, now)
                             ELSE [task |-> NoTask, cache |-> github_cache]
           vuln           == VulnStart(request.package_name, target_version, osv_cache, now)
       IN  IF IsException(npm_data)
           THEN /\ au' = Raise(au, IF npm_data.cls = "PackageNotFoundError"
                                    THEN HTTPException(404, "package_not_found")
                                    ELSE HTTPException(500, "internal_error"))
                /\ UNCHANGED <<github_cache, osv_cache>>
           ELSE IF InvalidVersion(request.version, versions)
           THEN /\ au' = Raise(au, HTTPException(400, "invalid_version"))
                /\ UNCHANGED <<github_cache, osv_cache>>
           ELSE /\ au' = Issued([au EXCEPT !.pc = "stage2",
                                           !.target_version = target_version,
                                           !.repo_url = repo_url],
                                [au.tasks EXCEPT !["repo"] = repo.task,
                                                 !["vuln"] = vuln.task,
                                                 !["allv"] = PendingTask,
                                                 !["prov"] = PendingTask])
                /\ github_cache' = repo.cache
                /\ osv_cache' = vuln.cache
    /\ UNCHANGED <<audits, rep, now, fv, calls, hist, rv, sc, restVars>>

\* fetch_repository_data from the response to its return: a result is cached
RepoRespond ==
    /\ au.tasks["repo"].st = "pending"
    /\ \E response \in GithubResponses :
          LET result == github_result(response)
          IN  /\ Replayed("repo", result)
              /\ au' = Finish(au, "repo", Outcome(response), result)
              /\ github_cache' =
                    IF IsException(result) THEN github_cache
                    ELSE TTLCache_set(github_cache,
                                      RepoCacheKey(parse_github_url(au.repo_url)), result, now)
    /\ UNCHANGED <<audits, rep, rv, sc, cacheVars, restVars>>

\* fetch_vulnerabilities from the response to its return: the value is cached
VulnRespond ==
    /\ au.tasks["vuln"].st = "pending"
    /\ \E o \in OsvOutcomes(au.request.package_name) :
          LET value == OsvValue(au.target_version, o)
          IN  /\ Replayed("vuln", value)
              /\ au' = Finish(au, "vuln", o.kind, value)
              /\ osv_cache' = TTLCache_set(osv_cache,
                                 OsvCacheKey(au.request.package_name, au.target_version),
                                 value, now)
    /\ UNCHANGED <<github_cache, audits, rep, now, fv, calls, hist, rv, sc, restVars>>

\* what fetch_all_vulnerabilities(client, package_name) leaves to gather: the
\* unfiltered records of the package, or an exception
AllVulnResults(package_name) ==
    { PyList(IF package_name = "lodash" THEN <<VulnProto, VulnCmdInj, VulnOpen>> ELSE <<>>),
      PyExc("Exception") }

AllvRespond ==
    /\ au.tasks["allv"].st = "pending"
    /\ \E result \in AllVulnResults(au.request.package_name) :
          /\ Replayed("allv", result)
          /\ au' = Finish(au, "allv", IF IsException(result) THEN "failed" ELSE "ok", result)
    /\ UNCHANGED <<github_cache, audits, rep, rv, sc, cacheVars, restVars>>

\* fetch_provenance_attestations from the response to its return
ProvRespond ==
    /\ au.tasks["prov"].st = "pending"
    /\ \E response \in ProvenanceResponses(au.request.package_name) :
          LET result == fetch_provenance_attestations(response)
          IN  /\ Replayed("prov", result)
              /\ au' = Finish(au, "prov", Outcome(response), result)
    /\ UNCHANGED <<github_cache, audits, rep, rv, sc, cacheVars, restVars>>

\* the fields audit_package fills from the results of the gathers: a result
\* that is an exception leaves the default
Bundle(a) ==
    LET prov == a.tasks["prov"].result
        dl   == a.tasks["dl"].result
    IN  [github_data      |-> Isolated(a.tasks["repo"].result, PyNone),
         advisories       |-> Isolated(a.tasks["vuln"].result, PyList(<<>>)),
         all_vulns        |-> Isolated(a.tasks["allv"].result, PyList(<<>>)),
         provenance_data  |-> IF ~ IsException(prov) /\ PyTruthy(prov)
                              THEN analyze_provenance(prov) ELSE EmptyPyDict,
         weekly_downloads |-> IF dl.type = "dict" THEN PyInt(Get(dl, "downloads", 0))
                              ELSE PyNone]

\* the ten analyzers in the order audit_package runs them, at time t
RunAnalyzers(a, bundle, t) ==
    LET npm_data            == a.tasks["meta"].result
        latest_version_data == LatestVersionData(npm_data, a.target_version)
        created             == Get(npm_data, "created", PyNone)
        age_days            == IF PyTruthy(created) THEN AgeDays(created.n, t) ELSE 0
        maintainers_list    == VersionOrPackage(latest_version_data, npm_data, "maintainers", <<>>)
        license_info        == VersionOrPackage(latest_version_data, npm_data, "license", "")
    IN  TyposquattingOf[a.request.package_name]
        \o analyze_install_scripts(latest_version_data)
        \o analyze_package_age(created, t)
        \o analyze_maintainers(maintainers_list, age_days)
        \o analyze_repository(a.repo_url, bundle.github_data)
        \o analyze_downloads(bundle.weekly_downloads, age_days)
        \o analyze_dependencies(latest_version_data)
        \o analyze_license(license_info)
        \o analyze_provenance_factors(bundle.provenance_data)
        \o analyze_vulnerabilities(bundle.advisories)

\* the mutant of RepositoryVerification that trusts every repository URL
RepositoryVerification_ByUrl(repo_url, github_data) ==
    IF repo_url # "" THEN PyDict([exists |-> TRUE, verified |-> TRUE])
    ELSE PyNone

\* repo_verification of audit_package
RepositoryVerification(repo_url, github_data) ==
    IF PyTruthy(github_data)
    THEN PyDict([exists |-> TRUE, verified |-> TRUE,
                 stars |-> Get(github_data, "stars", 0),
                 archived |-> Get(github_data, "archived", FALSE)])
    ELSE IF repo_url # "" THEN PyDict([exists |-> FALSE, verified |-> FALSE])
    ELSE PyNone

\* the AuditResponse, with the bundle and the age it was computed from and
\* the tasks that had not finished when the analyzers ran
AuditResponse(a, t, bundle, factors, score) ==
    [kind |-> "report",
     package_name |-> a.request.package_name,
     version |-> a.target_version,
     risk_score |-> score.score,
     risk_level |-> get_risk_level(score.score, score.has_critical_high_risk),
     factors |-> factors,
     radar_scores |-> calculate_radar_scores(factors),
     historical_cves_fixed |-> HistoricalCvesFixed(a.target_version, Items(bundle.all_vulns)),
     downloads_weekly |-> bundle.weekly_downloads,
     repository_verification |-> RepositoryVerification(a.repo_url, bundle.github_data),
     bundle |-> bundle,
     age_days |-> LET created == Get(a.tasks["meta"].result, "created", PyNone)
                  IN  IF PyTruthy(created) THEN AgeDays(created.n, t) ELSE 0,
     in_flight |-> { x \in DOMAIN a.tasks : a.tasks[x].st = "pending" }]

\* audit_package from the second gather to the response: the results are
\* unpacked, the analyzers run, the scores are computed
Stage2Join ==
    /\ au.pc = "stage2"
    /\ gather_done(au.tasks, Stage2Tasks)
    /\ \E bundle \in {Bundle(au)} :
       \E factors \in {RunAnalyzers(au, bundle, now)} :
       \E score \in {calculate_risk_score(factors)} :
          au' = [au EXCEPT !.pc = "done",
                           !.out = AuditResponse(au, now, bundle, factors, score)]
    /\ UNCHANGED <<github_cache, audits, rep, rv, sc, cacheVars, restVars>>

----------------------------------------------------------------------------
(* Specification of the scoring engine: a finding list is drawn and scored  *)
(* as audit_package scores it; then a finding is added to it, or two of its *)
(* findings change places, and it is scored again.  get_risk_level is also  *)
(* called on its own, as the unit tests call it.                            *)

Findings == [severity : Severities, category : Categories]

FindingLists == UNION { [1..n -> Findings] : n \in 0..MaxFindings }

\* the findings of the longer lists
LongFindings == [severity : {"critical", "high", "low"}, category : {"reputation"}]

LongLists == UNION { [1..n -> LongFindings] : n \in (MaxFindings + 1)..MaxLong }

AllHundred == [cat \in Categories |-> 100]

NoFinding == [severity |-> "none", category |-> "none"]

NoResult == [factors |-> <<>>, score |-> 0, level |-> "none", radar |-> AllHundred]

ScoreIdle ==
    [factors |-> <<>>, called |-> "none", score |-> 0, flag |-> FALSE, level |-> "none",
     radar |-> AllHundred, added |-> NoFinding, prev |-> NoResult]

ScoreInputs == { [ScoreIdle EXCEPT !.factors = l] : l \in FindingLists \cup LongLists }

\* the three scoring calls of audit_package on a finding list
Scored(s, factors) ==
    LET r == calculate_risk_score(factors)
    IN  [s EXCEPT !.factors = factors,
                  !.score   = r.score,
                  !.flag    = r.has_critical_high_risk,
                  !.level   = get_risk_level(r.score, r.has_critical_high_risk),
                  !.radar   = calculate_radar_scores(factors)]

\* the result of the last scoring
LastResult(s) == [factors |-> s.factors, score |-> s.score, level |-> s.level, radar |-> s.radar]

\* routers/audit.py: risk_score, flag = calculate_risk_score(factors);
\* risk_level = get_risk_level(risk_score, flag);
\* radar_scores = calculate_radar_scores(factors)
ScoreFactors ==
    /\ sc.called = "none"
    /\ sc' = [Scored(sc, sc.factors) EXCEPT !.called = "score"]
    /\ UNCHANGED <<rv, cacheVars, auditVars, restVars>>

\* a call get_risk_level(score, has_critical_high_risk) on a given score
CallGetRiskLevel ==
    /\ sc.called = "none"
    /\ sc.factors = <<>>
    /\ \E s \in 0..100, h \in BOOLEAN :
          sc' = [sc EXCEPT !.called = "level", !.score = s, !.flag = h,
                           !.level = get_risk_level(s, h)]
    /\ UNCHANGED <<rv, cacheVars, auditVars, restVars>>

\* the scored list with one more finding, in front or at the end, is scored
AddFinding ==
    /\ sc.called = "score"
    /\ \E f \in Findings, front \in BOOLEAN :
          LET factors == IF front THEN <<f>> \o sc.factors ELSE Append(sc.factors, f)
          IN  sc' = [Scored(sc, factors) EXCEPT !.called = "added", !.added = f,
                                                !.prev = LastResult(sc)]
    /\ UNCHANGED <<rv, cacheVars, auditVars, restVars>>

\* factors with the findings at i and i + 1 exchanged (factors itself for i = 0)
Swapped(factors, i) ==
    [k \in 1..Len(factors) |->
        IF i > 0 /\ k = i THEN factors[i + 1]
        ELSE IF i > 0 /\ k = i + 1 THEN factors[i]
        ELSE factors[k]]

\* the scored list is scored again, as it is or with two neighbours exchanged
Permute ==
    /\ sc.called = "score"
    /\ \E i \in 0..(Len(sc.factors) - 1) :
          sc' = [Scored(sc, Swapped(sc.factors, i)) EXCEPT !.called = "permuted",
                                                         !.prev = LastResult(sc)]
    /\ UNCHANGED <<rv, cacheVars, auditVars, restVars>>

----------------------------------------------------------------------------
(* Inputs of the version comparator *)

GridTexts == { VerText(a, b, c) : a \in 0..MaxComp, b \in 0..MaxComp, c \in 0..MaxComp }

\* the versions of the documented lodash example
SpecimenTexts == { VerText(4, 17, 11), VerText(4, 17, 12), VerText(4, 17, 21) }

\* texts that do not start with digits.digits.digits
MalformedTexts == { <<"l", "a", "t", "e", "s", "t">>,
                    <<"1", ".", "1">>,
                    <<"v">> \o VerText(1, 0, 1) }

\* well-formed texts with decoration the parser accepts
DecoratedTexts == { <<" ">> \o VerText(1, 0, 0) \o <<" ">>,
                    VerText(1, 1, 0) \o <<"-", "r", "c", "1">> }

VersionTexts == GridTexts \cup SpecimenTexts \cup MalformedTexts \cup DecoratedTexts

BoundTexts == GridTexts \cup { VerText(4, 17, 12), <<"l", "a", "t", "e", "s", "t">> }

IntroducedTexts == BoundTexts \cup { <<"0">> }

OptBoundTexts == BoundTexts \cup { NoneText, <<>> }

IsMalformed(t) ==
    LET s  == Strip(t)
        e1 == DigitRunEnd(s, 1)
        e2 == DigitRunEnd(s, e1 + 2)
        e3 == DigitRunEnd(s, e2 + 2)
    IN ~ ( /\ e1 >= 1 /\ e1 + 1 <= Len(s) /\ s[e1 + 1] = "."
           /\ e2 >= e1 + 2 /\ e2 + 1 <= Len(s) /\ s[e2 + 1] = "."
           /\ e3 >= e2 + 2 )

----------------------------------------------------------------------------
(* Specification of the version comparator: a call of version_in_range on   *)
(* drawn arguments.                                                         *)

RangeIdle == [version |-> <<>>, introduced |-> <<>>, fixed |-> NoneText,
              last_affected |-> NoneText, called |-> FALSE, result |-> FALSE]

RangeInputs ==
    [ version : VersionTexts, introduced : IntroducedTexts,
      fixed : OptBoundTexts, last_affected : OptBoundTexts,
      called : {FALSE}, result : {FALSE} ]

CallVersionInRange ==
    /\ ~ rv.called
    /\ rv' = [rv EXCEPT !.called = TRUE,
                        !.result = version_in_range(rv.version, rv.introduced,
                                                    rv.fixed, rv.last_affected)]
    /\ UNCHANGED <<sc, cacheVars, auditVars, restVars>>

----------------------------------------------------------------------------
(* Specification of the shared cache: several callers run                   *)
(* fetch_vulnerabilities concurrently on one event loop.  A coroutine runs  *)
(* without interruption from one await to the next, so a call is two steps: *)
(* up to the POST (the cache lookup), and from the response to the return   *)
(* (the cache insertion).  The coroutines in flight are counted by request  *)
(* (callers are interchangeable); what was returned last is kept in the     *)
(* history.                                                                 *)

FvRequests == { <<"lodash", V_4_17_11>>, <<"lodash", NoneText>>, <<"evil-pkg", NoneText>> }

RECURSIVE SumOver(_, _)
SumOver(f, S) ==
    IF S = {} THEN 0
    ELSE LET x == CHOOSE y \in S : TRUE IN f[x] + SumOver(f, S \ {x})

\* number of fetch_vulnerabilities coroutines waiting for their response
InFlight == SumOver(fv, FvRequests)

NoGet == [done |-> FALSE, key |-> <<>>, time |-> 0, ret |-> PyNone,
          was_set |-> FALSE, set_value |-> PyNone, set_time |-> 0]

NoReturn == [done |-> FALSE, key |-> <<>>, value |-> PyNone, cached |-> FALSE]

\* failed: the keys whose last completed set stored the [] of an except branch
HistInit == [last_set |-> EmptyDict, get |-> NoGet, ret |-> NoReturn, failed |-> {}]

\* the history after a get of key that returned ret
HistGet(h, key, ret, t) ==
    [h EXCEPT !.get = [done |-> TRUE, key |-> key, time |-> t, ret |-> ret,
                       was_set |-> key \in DOMAIN h.last_set,
                       set_value |-> IF key \in DOMAIN h.last_set
                                     THEN h.last_set[key].value ELSE PyNone,
                       set_time |-> IF key \in DOMAIN h.last_set
                                    THEN h.last_set[key].timestamp ELSE 0]]

\* the history after a completed set of key
HistSet(h, key, value, t) ==
    [h EXCEPT !.last_set = DictPut(h.last_set, key, [value |-> value, timestamp |-> t])]

\* the history after fetch_vulnerabilities returned value for key
HistReturn(h, key, value, cached) ==
    [h EXCEPT !.ret = [done |-> TRUE, key |-> key, value |-> value, cached |-> cached]]

\* the history after the set of key that followed the outcome of the request
HistOutcome(h, key, outcome) ==
    [h EXCEPT !.failed = IF outcome.kind = "ok" THEN h.failed \ {key} ELSE h.failed \cup {key}]

CacheIdle ==
    /\ now = 0
    /\ osv_cache = EmptyDict
    /\ fv = [r \in FvRequests |-> 0]
    /\ calls = 0
    /\ hist = HistInit

\* fetch_vulnerabilities(client, package_name, version) up to its first
\* await: the cache lookup, and the return of a cached value
FvCall ==
    /\ InFlight < NumFetchers
    /\ calls < MaxCalls
    /\ \E r \in FvRequests :
          LET key == OsvCacheKey(r[1], r[2])
              g   == TTLCache_get(osv_cache, key, now)
          IN  /\ osv_cache' = g.cache
              /\ IF g.ret # PyNone
                 THEN /\ hist' = HistReturn(HistGet(hist, key, g.ret, now), key, g.ret, TRUE)
                      /\ fv' = fv
                 ELSE /\ hist' = HistGet(hist, key, g.ret, now)
                      /\ fv' = [fv EXCEPT ![r] = @ + 1]
    /\ calls' = calls + 1
    /\ UNCHANGED <<now, rv, sc, auditVars, restVars>>

\* fetch_vulnerabilities from the response (or the timeout) to its return
FvRespond ==
    \E r \in FvRequests :
       /\ fv[r] > 0
       /\ \E o \in OsvOutcomes(r[1]) :
             LET key   == OsvCacheKey(r[1], r[2])
                 value == OsvValue(r[2], o)
             IN  /\ osv_cache' = TTLCache_set(osv_cache, key, value, now)
                 /\ hist' = HistOutcome(HistReturn(HistSet(hist, key, value, now), key, value, FALSE),
                                         key, o)
                 /\ fv' = [fv EXCEPT ![r] = @ - 1]
       /\ UNCHANGED <<now, calls, rv, sc, auditVars, restVars>>

\* time passes: the clock advances by ClockStep.  An audit lasts seconds
\* (its clients time out after 5 to 10 seconds), so the clock of the model
\* advances between audits.
Tick ==
    /\ now < MaxTicks * ClockStep
    /\ au.pc \notin {"stage1", "stage2"}
    /\ now' = now + ClockStep
    /\ UNCHANGED <<osv_cache, fv, calls, hist, rv, sc, auditVars, restVars>>

----------------------------------------------------------------------------
(* Specification of the record filter: is_version_affected is called on a   *)
(* drawn version and a drawn list of records, as fetch_vulnerabilities and  *)
(* audit_package call it.                                                   *)

Ev(kind, value) == [kind |-> kind, value |-> value]

\* the events lists of the drawn ranges: one interval closed by a fix, one
\* closed by last_affected, an open one, two intervals in one range, and a
\* range without an introduced event
EventLists ==
    { <<Ev("introduced", <<"0">>), Ev("fixed", VerText(1, 2, 0))>>,
      <<Ev("introduced", VerText(1, 0, 0)), Ev("last_affected", VerText(1, 5, 0))>>,
      <<Ev("introduced", VerText(2, 0, 0))>>,
      <<Ev("introduced", <<"0">>), Ev("fixed", VerText(1, 0, 1)),
        Ev("introduced", VerText(2, 0, 0)), Ev("fixed", VerText(2, 0, 1))>>,
      <<Ev("fixed", VerText(1, 0, 0))>> }

DrawnRanges ==
    { [type |-> "SEMVER", events |-> e] : e \in EventLists }
    \cup { [type |-> "GIT", events |-> <<Ev("introduced", <<"0">>)>>] }

RangeLists == UNION { [1..n -> DrawnRanges] : n \in 1..MaxRanges }

\* a record is kept with the fields is_version_affected and the loop of
\* fetch_vulnerabilities read
DrawnRecord(affected, db_severity) ==
    [id |-> "GHSA-0000", aliases |-> <<>>, severity |-> <<>>, db_severity |-> db_severity,
     affected |-> affected]

\* the range {introduced 0, fixed 1.2.0} of the npm package
PlainAffected ==
    <<[ecosystem |-> "npm",
       ranges |-> <<[type |-> "SEMVER",
                     events |-> <<Ev("introduced", <<"0">>), Ev("fixed", VerText(1, 2, 0))>>]>>]>>

\* records of the npm package, of a package of another ecosystem, and a
\* record that lists no range at all
DrawnRecords ==
    { DrawnRecord(<<[ecosystem |-> "npm", ranges |-> r]>>, "HIGH") : r \in RangeLists }
    \cup { DrawnRecord(<<[ecosystem |-> "PyPI", ranges |-> <<r>>]>>, "HIGH") : r \in DrawnRanges }
    \cup { DrawnRecord(<<>>, "HIGH") }
    \cup { DrawnRecord(PlainAffected, sev) : sev \in {"CRITICAL", "MODERATE", "LOW", ""} }

AuditedVersions == { VerText(0, 5, 0), VerText(1, 0, 0), VerText(1, 3, 0), VerText(2, 0, 0) }

AffectedIdle == [version |-> NoneText, vulns |-> <<>>, called |-> "none",
                 affected |-> FALSE, results |-> <<>>, fixed_count |-> 0, findings |-> <<>>]

AffectedInputs ==
    { [AffectedIdle EXCEPT !.version = v, !.vulns = <<r>>] :
          v \in AuditedVersions \cup {NoneText}, r \in DrawnRecords }

\* is_version_affected(version, vuln)
CallIsVersionAffected ==
    /\ va.called = "none"
    /\ va' = [va EXCEPT !.called = "is_version_affected",
                        !.affected = is_version_affected(va.version, va.vulns[1])]
    /\ UNCHANGED <<firstVars, lastVars, pv, ty, gm, ss, az>>

\* the loop of fetch_vulnerabilities over the records of a response
FilterRecords ==
    /\ va.called = "none"
    /\ \E more \in DrawnRecords :
          LET vulns == va.vulns \o <<more>>
          IN  va' = [va EXCEPT !.called = "fetch_vulnerabilities",
                               !.vulns = vulns,
                               !.results = OsvResults(va.version, vulns)]
    /\ UNCHANGED <<firstVars, lastVars, pv, ty, gm, ss, az>>

\* analyze_vulnerabilities(advisories) on the list fetch_vulnerabilities
\* returned, as audit_package calls it
AnalyzeRecords ==
    /\ va.called = "fetch_vulnerabilities"
    /\ va' = [va EXCEPT !.called = "analyze_vulnerabilities",
                        !.findings = analyze_vulnerabilities(PyList(va.results))]
    /\ UNCHANGED <<firstVars, lastVars, pv, ty, gm, ss, az>>

\* the loop of audit_package over all_vulns
CountHistorical ==
    /\ va.called = "none"
    /\ Truthy(va.version)
    /\ \E more \in DrawnRecords :
          LET vulns == va.vulns \o <<more>>
          IN  va' = [va EXCEPT !.called = "audit_package",
                               !.vulns = vulns,
                               !.fixed_count = HistoricalCvesFixed(va.version, vulns)]
    /\ UNCHANGED <<firstVars, lastVars, pv, ty, gm, ss, az>>

----------------------------------------------------------------------------
(* Specification of the version parsers: parse_semver (round_2) and         *)
(* parse_version (round_3) are called on a version x.y.z and on the same    *)
(* version behind a leading qualifier.                                      *)

\* the leading qualifiers: v, ^, ~ and the comparison operators
Qualifiers == { <<"v">>, <<"^">>, <<"~">>, <<">", "=">>, <<"<", "=">>, <<">">>, <<"<">>, <<"=">> }

PlainVersions == GridTexts \cup SpecimenTexts

ParseIdle == [text |-> <<>>, qualifier |-> <<>>, called |-> "none",
              plain |-> <<>>, qualified |-> <<>>]

ParseInputs ==
    { [ParseIdle EXCEPT !.text = t, !.qualifier = q] : t \in PlainVersions, q \in Qualifiers }

\* re.findall(r'\d+', s), each run converted by int()
RECURSIVE DigitRuns(_)
DigitRuns(s) ==
    IF s = <<>> THEN <<>>
    ELSE IF IsDigit(Head(s))
         THEN LET e == DigitRunEnd(s, 1)
              IN  <<IntOf(SubSeq(s, 1, e))>> \o DigitRuns(SubSeq(s, e + 1, Len(s)))
         ELSE DigitRuns(Tail(s))

\* cve_detector.parse_version: (0,) for an empty text; one leading character
\* of v ^ ~ > = < is removed, then the runs of digits are the parts
parse_version(version_str) ==
    IF version_str = <<>> THEN <<0>>
    ELSE LET s     == IF Head(version_str) \in {"v", "^", "~", ">", "=", "<"}
                      THEN Tail(version_str) ELSE version_str
             parts == DigitRuns(s)
         IN  IF parts = <<>> THEN <<0>> ELSE parts

CallParseSemver ==
    /\ pv.called = "none"
    /\ pv' = [pv EXCEPT !.called = "parse_semver",
                        !.plain = parse_semver(pv.text),
                        !.qualified = parse_semver(pv.qualifier \o pv.text)]
    /\ UNCHANGED <<firstVars, lastVars, va, ty, gm, ss, az>>

CallParseVersion ==
    /\ pv.called = "none"
    /\ pv' = [pv EXCEPT !.called = "parse_version",
                        !.plain = parse_version(pv.text),
                        !.qualified = parse_version(pv.qualifier \o pv.text)]
    /\ UNCHANGED <<firstVars, lastVars, va, ty, gm, ss, az>>

----------------------------------------------------------------------------
(* Typosquat detection: utils/typosquat.py called name by name *)

\* the names asked about: every popular entry written in lower or upper
\* case, with or without surrounding blanks, with hyphens or underscores,
\* and a few names that are not in the list
Padded(s) == <<" ">> \o s \o <<" ">>

PopularVariants ==
    { pad :
        pad \in UNION { { cased, Padded(cased) } :
                    cased \in UNION { { sep, UpperText(sep) } :
                                sep \in UNION { { POPULAR_PACKAGES[i],
                                                  Replace(POPULAR_PACKAGES[i], "-", "_") } :
                                                i \in 1..Len(POPULAR_PACKAGES) } } } }

OtherNames ==
    { <<"l", "o", "d", "a", "h", "s">>,
      <<"e", "x", "p", "r", "e", "s", "s", "s">>,
      <<"r", "e", "a", "k", "t">>,
      <<"e", "v", "i", "l", "-", "p", "k", "g">>,
      <<"f", "s", "_", "e", "x", "t", "r", "a", "s">>,
      <<"@", "b", "a", "b", "e", "l", "/", "c", "o", "r", "d">> }

\* a call on a name; of and edit say which popular name it was made from by
\* which single-character edit, when it was made so
TypoIdle ==
    [name |-> <<>>, called |-> "none", matches |-> <<>>, findings |-> <<>>,
     of |-> <<>>, edit |-> "none"]

TypoInputs == { [TypoIdle EXCEPT !.name = n] : n \in PopularVariants \cup OtherNames }

\* matches = check_typosquatting(name)
CallCheckTyposquatting ==
    /\ ty.called = "none"
    /\ ty' = [ty EXCEPT !.called = "check_typosquatting",
                        !.matches = check_typosquatting(ty.name)]
    /\ UNCHANGED <<firstVars, lastVars, va, pv, gm, ss, az>>

\* findings = analyze_typosquatting(name)
CallAnalyzeTyposquatting ==
    /\ ty.called = "check_typosquatting"
    /\ ty' = [ty EXCEPT !.called = "analyze_typosquatting",
                        !.findings = analyze_typosquatting(ty.name)]
    /\ UNCHANGED <<firstVars, lastVars, va, pv, gm, ss, az>>

\* the characters inserted and substituted
EditChars == {"z", "1"}

\* the names one single-character edit away from p: an insertion, a
\* deletion, a substitution or a transposition of neighbours
SingleEdits(p) ==
    { [name |-> SubSeq(p, 1, i) \o <<c>> \o SubSeq(p, i + 1, Len(p)), edit |-> "insertion"]
        : i \in 0..Len(p), c \in EditChars }
    \cup { [name |-> SubSeq(p, 1, i - 1) \o SubSeq(p, i + 1, Len(p)), edit |-> "deletion"]
             : i \in 1..Len(p) }
    \cup { [name |-> [p EXCEPT ![i] = c], edit |-> "substitution"]
             : i \in 1..Len(p), c \in EditChars }
    \cup { [name |-> [p EXCEPT ![i] = p[i + 1], ![i + 1] = p[i]], edit |-> "transposition"]
             : i \in 1..(Len(p) - 1) }

\* the calls on a name one edit away from a popular name and not popular
EditInputs ==
    UNION { { [TypoIdle EXCEPT !.name = e.name, !.of = POPULAR_PACKAGES[i], !.edit = e.edit]
                : e \in { x \in SingleEdits(POPULAR_PACKAGES[i]) :
                             x.name # <<>> /\ ~ IsPopular(x.name) } }
            : i \in 1..Len(POPULAR_PACKAGES) }

----------------------------------------------------------------------------
(* The analyzer block of audit_package (audit.py 242-274), one call at a    *)
(* time: the ten analyzers are called on the values audit_package has built *)
(* (the arguments), in any order, while the clock runs.                     *)

Analyzers ==
    { "typosquatting", "install_scripts", "package_age", "maintainers", "repository",
      "downloads", "dependencies", "license", "provenance", "vulnerabilities" }

\* the arguments audit_package builds for a package of the registry at time
\* t from the registry document and the results of the other fetches
AnalyzerArguments(package_name, github_data, weekly_downloads, provenance_data, advisories, t) ==
    LET npm_data            == RegistryDocs[package_name]
        latest_version_data == LatestVersionData(npm_data, npm_data.latest)
        created             == Get(npm_data, "created", PyNone)
    IN  [package_name        |-> package_name,
         latest_version_data |-> latest_version_data,
         created             |-> created,
         age_days            |-> IF PyTruthy(created) THEN AgeDays(created.n, t) ELSE 0,
         maintainers_list    |-> VersionOrPackage(latest_version_data, npm_data, "maintainers", <<>>),
         repo_url            |-> Get(latest_version_data, "repository", ""),
         github_data         |-> github_data,
         weekly_downloads    |-> weekly_downloads,
         license_info        |-> VersionOrPackage(latest_version_data, npm_data, "license", ""),
         provenance_data     |-> provenance_data,
         advisories          |-> advisories]

\* one analyzer called on its arguments at time t
Analyze(k, args, t) ==
    CASE k = "typosquatting"   -> analyze_typosquatting(NameChars(args.package_name))
      [] k = "install_scripts" -> analyze_install_scripts(args.latest_version_data)
      [] k = "package_age"     -> analyze_package_age(args.created, t)
      [] k = "maintainers"     -> analyze_maintainers(args.maintainers_list, args.age_days)
      [] k = "repository"      -> analyze_repository(args.repo_url, args.github_data)
      [] k = "downloads"       -> analyze_downloads(args.weekly_downloads, args.age_days)
      [] k = "dependencies"    -> analyze_dependencies(args.latest_version_data)
      [] k = "license"         -> analyze_license(args.license_info)
      [] k = "provenance"      -> analyze_provenance_factors(args.provenance_data)
      [] k = "vulnerabilities" -> analyze_vulnerabilities(args.advisories)

\* the arguments after an analyzer has returned, had it emptied the
\* dictionary it was given
ArgumentsAfter_Consumed(k, args) ==
    IF k \in {"install_scripts", "dependencies"}
    THEN [args EXCEPT !.latest_version_data = EmptyPyDict]
    ELSE args

\* the arguments after an analyzer has returned: no analyzer assigns to or
\* through its parameters, so they are as before
ArgumentsAfter(k, args) == args

AnalyzersIdle ==
    [args |-> PyNone, built |-> PyNone, t0 |-> 0, t |-> 0, ran |-> {},
     out |-> [k \in Analyzers |-> <<>>]]

AnalyzedPackages == {"lodash", "evil-pkg"}

AnalyzerInputs ==
    { [AnalyzersIdle EXCEPT !.args = args, !.built = args]
        : args \in { AnalyzerArguments(p, g, PyInt(WeeklyDownloads(p)), analyze_provenance(pr), ad, 0)
                        : p \in AnalyzedPackages,
                          g \in { PyNone, PyDict([stars |-> 3, forks |-> 0, archived |-> TRUE]) },
                          pr \in { PyNone, PyDict([attestations |-> <<Attestation(FALSE, FALSE, TRUE)>>]) },
                          ad \in { PyList(<<>>), PyList(OsvResults(NoneText, <<VulnProto>>)) } } }

\* one of the analyzers that has not run is called now
RunAnalyzer ==
    /\ az.args # PyNone
    /\ \E k \in Analyzers :
           /\ k \notin az.ran
           /\ az' = [az EXCEPT !.out[k] = Analyze(k, az.args, az.t),
                               !.ran = az.ran \cup {k},
                               !.args = ArgumentsAfter(k, az.args)]
    /\ UNCHANGED <<firstVars, lastVars, va, pv, ty, gm, ss>>

\* time passes between two analyzer calls
AnalyzersTick ==
    /\ az.args # PyNone
    /\ az.t < MaxTicks * ClockStep
    /\ az' = [az EXCEPT !.t = az.t + ClockStep]
    /\ UNCHANGED <<firstVars, lastVars, va, pv, ty, gm, ss>>

----------------------------------------------------------------------------
(* Emoji Zork: round_1/src/game_engine.py and models.py on the world of     *)
(* src/world.py.  Emoji are written by name: the items sword, flashlight,   *)
(* key, potion, diamond, shield, map and crown; the directions up, down,    *)
(* left and right; the enemies bat, troll, dragon and grue; the error signs *)
(* skull, question, locked, blocked and swords.                             *)

VALID_ACTIONS == {"move", "look", "take", "attack", "use"}

VALID_DIRECTIONS == {"up", "down", "left", "right"}

\* ITEMS of world.py: the score, heal and damage values and the win mark
ITEMS ==
    [sword      |-> [damage |-> 2, heal |-> 0, score |-> 0, win |-> FALSE],
     flashlight |-> [damage |-> 0, heal |-> 0, score |-> 0, win |-> FALSE],
     key        |-> [damage |-> 0, heal |-> 0, score |-> 0, win |-> FALSE],
     potion     |-> [damage |-> 0, heal |-> 2, score |-> 0, win |-> FALSE],
     diamond    |-> [damage |-> 0, heal |-> 0, score |-> 50, win |-> FALSE],
     shield     |-> [damage |-> 0, heal |-> 0, score |-> 0, win |-> FALSE],
     map        |-> [damage |-> 0, heal |-> 0, score |-> 0, win |-> FALSE],
     crown      |-> [damage |-> 0, heal |-> 0, score |-> 100, win |-> TRUE]]

VALID_ITEMS == DOMAIN ITEMS

Enemy(emoji, health, damage) ==
    [emoji |-> emoji, health |-> health, max_health |-> health, damage |-> damage]

ENEMY_TEMPLATES ==
    [bat    |-> Enemy("bat", 1, 1),
     troll  |-> Enemy("troll", 3, 1),
     dragon |-> Enemy("dragon", 5, 2),
     grue   |-> Enemy("grue", 999, 999)]

ENEMY_SCORES == [bat |-> 10, troll |-> 25, dragon |-> 50]

\* a Room: items, enemies, exits and locked exits (direction -> room), dark
Room(items, enemies, exits, locked_exits, is_dark) ==
    [items |-> items, enemies |-> enemies, exits |-> exits,
     locked_exits |-> locked_exits, is_dark |-> is_dark]

NoExits == [d \in {} |-> ""]

create_world ==
    [house   |-> Room(<<"sword">>, <<>>, [right |-> "forest"], NoExits, FALSE),
     forest  |-> Room(<<"flashlight">>, <<ENEMY_TEMPLATES.bat>>,
                      [left |-> "house", right |-> "river", down |-> "cave", up |-> "temple"],
                      NoExits, FALSE),
     river   |-> Room(<<"diamond">>, <<>>, [left |-> "forest"], NoExits, FALSE),
     temple  |-> Room(<<"potion">>, <<ENEMY_TEMPLATES.troll>>, [down |-> "forest"], NoExits, FALSE),
     cave    |-> Room(<<"shield">>, <<ENEMY_TEMPLATES.grue>>,
                      [up |-> "forest", down |-> "dungeon"], NoExits, TRUE),
     dungeon |-> Room(<<"map">>, <<ENEMY_TEMPLATES.troll>>, [up |-> "cave"],
                      [down |-> "throne"], FALSE),
     throne  |-> Room(<<"crown">>, <<ENEMY_TEMPLATES.dragon>>, [up |-> "dungeon"], NoExits, FALSE)]

\* GameEngine.new_game
new_game ==
    [current_room   |-> "house",
     health         |-> 3,
     max_health     |-> 5,
     inventory      |-> <<>>,
     score          |-> 0,
     room_items     |-> [r \in DOMAIN create_world |-> create_world[r].items],
     room_enemies   |-> [r \in DOMAIN create_world |-> create_world[r].enemies],
     unlocked_doors |-> {},
     game_over      |-> FALSE,
     victory        |-> FALSE]

\* x in list
InList(x, list) == \E i \in 1..Len(list) : list[i] = x

\* list.remove(x): without the first x
RemoveFirst(list, x) ==
    LET i == CHOOSE j \in 1..Len(list) : list[j] = x /\ \A k \in 1..(j - 1) : list[k] # x
    IN  SubSeq(list, 1, i - 1) \o SubSeq(list, i + 1, Len(list))

has_light(state) == InList("flashlight", state.inventory)

has_weapon(state) == InList("sword", state.inventory)

has_shield(state) == InList("shield", state.inventory)

is_alive(enemy) == enemy.health > 0

\* Room.get_available_exits with the locked exits always open
get_available_exits_Open(room, unlocked) == room.locked_exits @@ room.exits

\* Room.get_available_exits: the exits and the locked exits whose room is
\* unlocked
get_available_exits(room, unlocked) ==
    [d \in { e \in DOMAIN room.locked_exits : room.locked_exits[e] \in unlocked } |->
        room.locked_exits[d]] @@ room.exits

\* take_damage without the floor of health at 0
take_damage_NoFloor(state, amount) ==
    LET actual_damage == Max(1, amount - (IF has_shield(state) THEN 1 ELSE 0))
        health        == state.health - actual_damage
    IN  [state EXCEPT !.health = health,
                      !.game_over = IF health <= 0 THEN TRUE ELSE state.game_over]

\* GameState.take_damage
take_damage(state, amount) ==
    LET actual_damage == Max(1, amount - (IF has_shield(state) THEN 1 ELSE 0))
        health        == Max(0, state.health - actual_damage)
    IN  [state EXCEPT !.health = health,
                      !.game_over = IF health <= 0 THEN TRUE ELSE state.game_over]

\* GameState.heal
heal(state, amount) == [state EXCEPT !.health = Min(state.max_health, state.health + amount)]

\* GameState.add_score
add_score(state, points) == [state EXCEPT !.score = state.score + points]

\* ActionResult; "" stands for None
ActionResult(success, state, event_type, error_emoji) ==
    [success |-> success, state |-> state, event_type |-> event_type, error_emoji |-> error_emoji]

\* the alive enemies of the current room, by their places in the list
AliveEnemies(state) ==
    { i \in 1..Len(state.room_enemies[state.current_room]) :
        is_alive(state.room_enemies[state.current_room][i]) }

handle_move(state, params) ==
    LET direction == params.direction
        room      == create_world[state.current_room]
        exits     == get_available_exits(room, state.unlocked_doors)
    IN  IF direction \notin VALID_DIRECTIONS
        THEN ActionResult(FALSE, state, "", "question")
        ELSE IF direction \notin DOMAIN exits
        THEN IF direction \in DOMAIN room.locked_exits
             THEN ActionResult(FALSE, state, "door_locked", "locked")
             ELSE ActionResult(FALSE, state, "", "blocked")
        ELSE LET moved == [state EXCEPT !.current_room = exits[direction]]
             IN  IF create_world[exits[direction]].is_dark /\ ~ has_light(moved)
                 THEN ActionResult(TRUE, [moved EXCEPT !.game_over = TRUE], "grue_attack", "")
                 ELSE ActionResult(TRUE, moved, "room_entered", "")

handle_look(state, params) == ActionResult(TRUE, state, "looked", "")

handle_take(state, params) ==
    LET item == params.item
    IN  IF item = "" \/ item \notin VALID_ITEMS
        THEN ActionResult(FALSE, state, "", "question")
        ELSE IF ~ InList(item, state.room_items[state.current_room])
        THEN ActionResult(FALSE, state, "", "blocked")
        ELSE IF AliveEnemies(state) # {}
        THEN ActionResult(FALSE, state, "", "swords")
        ELSE LET picked == [state EXCEPT
                               !.room_items[state.current_room] = RemoveFirst(@, item),
                               !.inventory = Append(@, item)]
                 scored == IF ITEMS[item].score # 0 THEN add_score(picked, ITEMS[item].score)
                           ELSE picked
                 won    == IF ITEMS[item].win
                           THEN [scored EXCEPT !.victory = TRUE, !.game_over = TRUE]
                           ELSE scored
             IN  ActionResult(TRUE, won, "item_taken", "")

handle_attack(state, params) ==
    IF ~ has_weapon(state) THEN ActionResult(FALSE, state, "", "blocked")
    ELSE IF AliveEnemies(state) = {} THEN ActionResult(FALSE, state, "", "blocked")
    ELSE LET here   == state.current_room
             i      == CHOOSE j \in AliveEnemies(state) : \A k \in AliveEnemies(state) : j <= k
             enemy  == [state.room_enemies[here][i] EXCEPT
                           !.health = Max(0, @ - ITEMS["sword"].damage)]
             hit    == [state EXCEPT !.room_enemies[here][i] = enemy]
         IN  IF ~ is_alive(enemy)
             THEN LET scored  == add_score(hit, IF enemy.emoji \in DOMAIN ENEMY_SCORES
                                                THEN ENEMY_SCORES[enemy.emoji] ELSE 0)
                      dropped == IF enemy.emoji = "troll" /\ here = "temple"
                                    /\ ~ InList("key", scored.room_items["temple"])
                                 THEN [scored EXCEPT !.room_items["temple"] = Append(@, "key")]
                                 ELSE scored
                  IN  ActionResult(TRUE, dropped, "enemy_defeated", "")
             ELSE LET hurt == take_damage(hit, enemy.damage)
                  IN  IF hurt.game_over
                      THEN ActionResult(TRUE, hurt, "player_died", "")
                      ELSE ActionResult(TRUE, hurt, "combat_round", "")

handle_use(state, params) ==
    LET item == params.item
    IN  IF item = "" \/ ~ InList(item, state.inventory)
        THEN ActionResult(FALSE, state, "", "blocked")
        ELSE IF item = "potion"
        THEN ActionResult(TRUE,
                          [heal(state, ITEMS[item].heal) EXCEPT !.inventory = RemoveFirst(@, item)],
                          "healed", "")
        ELSE IF item = "key"
        THEN LET room == create_world[state.current_room]
             IN  IF DOMAIN room.locked_exits # {}
                 THEN ActionResult(TRUE,
                          [state EXCEPT
                              !.unlocked_doors = @ \cup { room.locked_exits[d] : d \in DOMAIN room.locked_exits },
                              !.inventory = RemoveFirst(@, item)],
                          "door_unlocked", "")
                 ELSE ActionResult(FALSE, state, "", "blocked")
        ELSE ActionResult(FALSE, state, "", "blocked")

\* perform_action without the test of game_over
perform_action_Undead(state, action, params) ==
    CASE action = "move"   -> handle_move(state, params)
      [] action = "look"   -> handle_look(state, params)
      [] action = "take"   -> handle_take(state, params)
      [] action = "attack" -> handle_attack(state, params)
      [] action = "use"    -> handle_use(state, params)
      [] OTHER             -> ActionResult(FALSE, state, "", "question")

\* GameEngine.perform_action
perform_action(state, action, params) ==
    IF state.game_over THEN ActionResult(FALSE, state, "", "skull")
    ELSE IF action \notin VALID_ACTIONS THEN ActionResult(FALSE, state, "", "question")
    ELSE CASE action = "move"   -> handle_move(state, params)
           [] action = "look"   -> handle_look(state, params)
           [] action = "take"   -> handle_take(state, params)
           [] action = "attack" -> handle_attack(state, params)
           [] action = "use"    -> handle_use(state, params)

\* the params of a request: a direction and an item, "" when not given
Params(direction, item) == [direction |-> direction, item |-> item]

\* the requests made: the valid ones, an unknown action, direction and item
RequestedDirections == VALID_DIRECTIONS \cup {"north", ""}

RequestedItems == VALID_ITEMS \cup {"rock", ""}

\* the game: its state, the last request and the ActionResult it got
GameIdle ==
    [state |-> new_game, action |-> "", params |-> Params("", ""),
     result |-> [success |-> FALSE, event_type |-> "", error_emoji |-> ""]]

\* one call of perform_action; the engine changes the state in place
Perform(action, params) ==
    LET r == perform_action(gm.state, action, params)
    IN  /\ gm' = [state |-> r.state, action |-> action, params |-> params,
                  result |-> [success |-> r.success, event_type |-> r.event_type,
                              error_emoji |-> r.error_emoji]]
        /\ UNCHANGED <<firstVars, lastVars, va, pv, ty, ss, az>>

Move == \E d \in RequestedDirections : Perform("move", Params(d, ""))

Look == Perform("look", Params("", ""))

Take == \E i \in RequestedItems : Perform("take", Params("", i))

Attack == Perform("attack", Params("", ""))

Use == \E i \in RequestedItems : Perform("use", Params("", i))

UnknownAction == Perform("dance", Params("", ""))


----------------------------------------------------------------------------
(* The session store of src/app.py.  Session ids are fresh (uuid4), so the  *)
(* dictionary game_sessions is kept as the number of sessions per creation  *)
(* time; rate_limit_store likewise holds, per client address, the number of *)
(* requests recorded per time.  Requests are handled one at a time.         *)

SESSION_TTL == 3600

MAX_SESSIONS == 1000

RATE_LIMIT == 60

\* the window of the rate limiter, in seconds
RateWindow == 60

\* len(d) of a dictionary kept as counts
Size(counts) == SumOver(counts, DOMAIN counts)

\* the dictionary with one more entry of time t
OneMore(counts, t) ==
    [c \in DOMAIN counts \cup {t} |-> IF c \in DOMAIN counts THEN counts[c] + (IF c = t THEN 1 ELSE 0)
                                      ELSE 1]

\* cleanup_expired_sessions: the sessions left at current_time
cleanup_expired_sessions(game_sessions, current_time) ==
    [c \in { d \in DOMAIN game_sessions : ~ (current_time - d > SESSION_TTL) } |-> game_sessions[c]]

\* check_rate_limit: whether the request is allowed, and the store after it
check_rate_limit(rate_limit_store, ip, current_time) ==
    LET cleaned == IF ip \in DOMAIN rate_limit_store
                   THEN [rate_limit_store EXCEPT ![ip] =
                            [t \in { u \in DOMAIN rate_limit_store[ip] : current_time - u < RateWindow } |->
                                rate_limit_store[ip][t]]]
                   ELSE rate_limit_store
        recorded == IF ip \in DOMAIN cleaned THEN Size(cleaned[ip]) ELSE 0
    IN  IF recorded >= RATE_LIMIT
        THEN [allowed |-> FALSE, store |-> cleaned]
        ELSE [allowed |-> TRUE,
              store |-> [i \in DOMAIN cleaned \cup {ip} |->
                            IF i = ip
                            THEN OneMore(IF ip \in DOMAIN cleaned THEN cleaned[ip] ELSE <<>>, current_time)
                            ELSE cleaned[i]]]

\* new_game of app.py with the limit tested by > for >=
api_new_game_OneOver(game_sessions, current_time) ==
    LET kept == cleanup_expired_sessions(game_sessions, current_time)
    IN  IF Size(kept) > MAX_SESSIONS
        THEN [status |-> 503, game_sessions |-> kept]
        ELSE [status |-> 200, game_sessions |-> OneMore(kept, current_time)]

\* new_game of app.py: the status of the response and the sessions after it
api_new_game(game_sessions, current_time) ==
    LET kept == cleanup_expired_sessions(game_sessions, current_time)
    IN  IF Size(kept) >= MAX_SESSIONS
        THEN [status |-> 503, game_sessions |-> kept]
        ELSE [status |-> 200, game_sessions |-> OneMore(kept, current_time)]

\* the client addresses requests come from
ClientAddresses == {"10.0.0.1", "10.0.0.2"}

\* the server before a request: no session, no request recorded
SessionsIdle ==
    [now |-> 0, game_sessions |-> <<>>, rate_limit_store |-> <<>>, requests |-> 0,
     ticks |-> 0, ip |-> "", status |-> 0]

\* the stores the requests so far have left: sessions created an hour and
\* more ago and just now, up to the limit, and one client close to its rate
StoresSoFar ==
    { [SessionsIdle EXCEPT
          !.game_sessions = [c \in { d \in {0 - 4000, 0} : (IF d = 0 THEN fresh ELSE old) > 0 } |->
                                IF c = 0 THEN fresh ELSE old],
          !.rate_limit_store = IF recorded = 0 THEN <<>>
                               ELSE [i \in {"10.0.0.1"} |-> [t \in {0} |-> recorded]]]
        : fresh \in {0, MAX_SESSIONS - 2, MAX_SESSIONS - 1},
          old \in {0, 1},
          recorded \in {0, RATE_LIMIT - 2} }

\* POST /api/new-game from a client: the rate limiter, then new_game
NewGameRequest ==
    /\ ss.requests < MaxRequests
    /\ \E ip \in ClientAddresses :
           LET rate == check_rate_limit(ss.rate_limit_store, ip, ss.now)
               resp == api_new_game(ss.game_sessions, ss.now)
           IN  ss' = [ss EXCEPT !.requests = ss.requests + 1,
                                !.ip = ip,
                                !.rate_limit_store = rate.store,
                                !.status = IF rate.allowed THEN resp.status ELSE 429,
                                !.game_sessions = IF rate.allowed THEN resp.game_sessions
                                                  ELSE ss.game_sessions]
    /\ UNCHANGED <<firstVars, lastVars, va, pv, ty, gm, az>>

\* time.time() advances
SessionsTick ==
    /\ ss.ticks < MaxSessionTicks
    /\ ss' = [ss EXCEPT !.now = ss.now + SessionStep, !.ticks = ss.ticks + 1]
    /\ UNCHANGED <<firstVars, lastVars, va, pv, ty, gm, az>>


----------------------------------------------------------------------------
(* The specifications *)

(* Specification of the cache keys: lookups of the vulnerability cache and *)
(* of the repository cache, each a get or a set under the key its client    *)
(* formats from the logical request, all at one instant.                    *)

\* the number of lookups made
MaxLookups == 3

LodashText == <<"l", "o", "d", "a", "s", "h">>

LodashEsText == <<"l", "o", "d", "a", "s", "h", "-", "e", "s">>

BabelCoreText == <<"@", "b", "a", "b", "e", "l", "/", "c", "o", "r", "e">>

\* the logical requests: a source, and the package and optional version
\* (vulnerabilities), the owner and repository (repository data) or the
\* package (advisories)
KeyRequests ==
    [source : {"osv"}, a : {LodashText, LodashEsText, BabelCoreText},
     b : {NoneText, <<>>, V_1_0_0, V_4_17_21}]
    \cup [source : {"repo"}, a : {LodashText, <<"b", "a", "b", "e", "l">>},
          b : {LodashText, LodashEsText}]
    \cup [source : {"advisories"}, a : {LodashText, LodashEsText, BabelCoreText},
          b : {NoneText}]

\* the cache a source's client uses: _osv_cache, or _github_cache
CacheOf(source) == IF source = "osv" THEN "osv" ELSE "github"

\* the cache_key the client of the request's source formats
cache_key(r) ==
    CASE r.source = "osv"  -> osv_cache_key(r.a, r.b)
      [] r.source = "repo" -> RepoCacheKey(<<r.a, r.b>>)
      [] OTHER             -> AdvisoriesCacheKey(r.a)

\* the request with a missing version written in one way
Logical(r) == [r EXCEPT !.b = IF Truthy(r.b) THEN r.b ELSE NoneText]

KeysIdle ==
    [store |-> [c \in {"osv", "github"} |-> EmptyDict], written |-> {},
     op |-> "none", request |-> PyNone, got |-> PyNone, n |-> 0]

\* cached = _cache.get(cache_key) for request r
KeyGet ==
    /\ kc.n < MaxLookups
    /\ \E r \in KeyRequests :
          LET c == CacheOf(r.source)
              g == TTLCache_get(kc.store[c], cache_key(r), 0)
          IN  kc' = [kc EXCEPT !.store[c] = g.cache, !.op = "get", !.request = r,
                               !.got = g.ret, !.n = @ + 1]
    /\ UNCHANGED <<firstVars, va, pv, ty, gm, ss, az, an>>

\* _cache.set(cache_key, value) for request r, the value being what the
\* source answers to r
KeySet ==
    /\ kc.n < MaxLookups
    /\ \E r \in KeyRequests :
          LET c == CacheOf(r.source)
          IN  kc' = [kc EXCEPT !.store[c] = TTLCache_set(@, cache_key(r), r, 0),
                               !.written = @ \cup {Logical(r)},
                               !.op = "set", !.request = r, !.got = PyNone, !.n = @ + 1]
    /\ UNCHANGED <<firstVars, va, pv, ty, gm, ss, az, an>>

----------------------------------------------------------------------------
(* The repository analyzer and the age analyzer called on their own.        *)

CallsIdle ==
    [fn |-> "none", package_repo |-> "", github_data |-> PyNone,
     created |-> PyNone, t |-> 0, called |-> FALSE, out |-> <<>>]

\* package_repo: none, a GitHub repository, a repository elsewhere
RepoLinks == {"", "https://github.com/lodash/lodash", "https://gitlab.com/lodash/lodash"}

StarCounts == {0, 4, 5, 6, 58000}

\* github_data: None, an empty dictionary, or what fetch_repository_data
\* returns
GithubDatas ==
    {PyNone, EmptyPyDict}
    \cup { PyDict([stars |-> s, forks |-> 0, archived |-> a]) : s \in StarCounts, a \in BOOLEAN }

RepositoryCalls ==
    { [CallsIdle EXCEPT !.fn = "analyze_repository", !.package_repo = r, !.github_data = g]
        : r \in RepoLinks, g \in GithubDatas }

\* ages in days around the boundaries
AgesTried == {0, 1, 6, 7, 8, 29, 30, 31, 89, 90, 91, 400}

\* created_date: missing, no date, or a date a whole number of days before
\* the call, one second more or one second less
CreatedDates(t) ==
    {PyNone, UnparsableDate}
    \cup { PyDate(t - d * SecondsPerDay + off) : d \in AgesTried, off \in {-1, 0, 1} }

AgeCalls ==
    { [CallsIdle EXCEPT !.fn = "analyze_package_age", !.created = c, !.t = t]
        : <<c, t>> \in UNION { { <<c, t>> : c \in CreatedDates(t) }
                                : t \in { k * ClockStep : k \in 0..MaxTicks } } }

\* analyze_repository(package_repo, github_data)
CallAnalyzeRepository ==
    /\ an.fn = "analyze_repository" /\ ~ an.called
    /\ an' = [an EXCEPT !.called = TRUE,
                        !.out = analyze_repository(an.package_repo, an.github_data)]
    /\ UNCHANGED <<firstVars, va, pv, ty, gm, ss, az, kc>>

\* analyze_package_age(created_date) when datetime.now() is an.t
CallAnalyzePackageAge ==
    /\ an.fn = "analyze_package_age" /\ ~ an.called
    /\ an' = [an EXCEPT !.called = TRUE, !.out = analyze_package_age(an.created, an.t)]
    /\ UNCHANGED <<firstVars, va, pv, ty, gm, ss, az, kc>>

\* nothing has been called in the specifications added last
LastIdle == kc = KeysIdle /\ an = CallsIdle

----------------------------------------------------------------------------
\* nothing has been called in the specifications that follow the first five
RestIdle ==
    /\ LastIdle
    /\ va = AffectedIdle
    /\ pv = ParseIdle
    /\ ty = TypoIdle
    /\ gm = GameIdle
    /\ ss = SessionsIdle /\ az = AnalyzersIdle

\* no audit has been requested
AuditQuiet == au = AuditIdle /\ github_cache = EmptyDict /\ audits = 0 /\ rep = RepOff

RangeInit == rv \in RangeInputs /\ sc = ScoreIdle /\ CacheIdle /\ AuditQuiet /\ RestIdle

RangeNext == CallVersionInRange

SpecRange == RangeInit /\ [][RangeNext]_vars

ScoreInit == sc \in ScoreInputs /\ rv = RangeIdle /\ CacheIdle /\ AuditQuiet /\ RestIdle

ScoreNext == ScoreFactors \/ CallGetRiskLevel \/ AddFinding \/ Permute

SpecScore == ScoreInit /\ [][ScoreNext]_vars

CacheInit == CacheIdle /\ rv = RangeIdle /\ sc = ScoreIdle /\ AuditQuiet /\ RestIdle

CacheNext == FvCall \/ FvRespond \/ Tick

SpecCache == CacheInit /\ [][CacheNext]_vars

\* the audit service: audits one after the other, sharing the two caches
Init == AuditQuiet /\ CacheIdle /\ rv = RangeIdle /\ sc = ScoreIdle /\ RestIdle

Next ==
    \/ StartAudit
    \/ MetaRespond
    \/ DlRespond
    \/ Stage1Join
    \/ RepoRespond
    \/ VulnRespond
    \/ AllvRespond
    \/ ProvRespond
    \/ Stage2Join
    \/ Tick

Spec == Init /\ [][Next]_vars

\* a step of the audit in progress: a response or a timeout arrives, or
\* the event loop resumes the coroutine whose gather is complete
AuditStep ==
    \/ MetaRespond \/ DlRespond \/ Stage1Join
    \/ RepoRespond \/ VulnRespond \/ AllvRespond \/ ProvRespond \/ Stage2Join

\* every request sent gets its response or runs into the timeout of its
\* client, and the event loop keeps running: while a step of the audit is
\* possible, one is eventually taken
Fairness == WF_vars(AuditStep)

SpecFair == Spec /\ Fairness

\* the audit service asked to audit the scenario package
ScenarioNext == StartScenario \/ AuditStep \/ Tick

SpecScenario == Init /\ [][ScenarioNext]_vars

\* the audit service asked for one audit again and again, upstream giving
\* the same answers every time
RepeatInit ==
    /\ au = AuditIdle /\ github_cache = EmptyDict /\ audits = 0
    /\ rep = [RepOff EXCEPT !.on = TRUE]
    /\ CacheIdle /\ rv = RangeIdle /\ sc = ScoreIdle /\ RestIdle

SpecRepeat == RepeatInit /\ [][Next]_vars

\* the record filter alone
FirstIdle == AuditQuiet /\ CacheIdle /\ rv = RangeIdle /\ sc = ScoreIdle

AffectedInit ==
    /\ va \in AffectedInputs
    /\ FirstIdle /\ LastIdle /\ pv = ParseIdle /\ ty = TypoIdle /\ gm = GameIdle /\ ss = SessionsIdle /\ az = AnalyzersIdle

AffectedNext == CallIsVersionAffected \/ FilterRecords \/ AnalyzeRecords \/ CountHistorical

SpecAffected == AffectedInit /\ [][AffectedNext]_vars

\* the version parsers alone
ParseInit ==
    /\ pv \in ParseInputs
    /\ FirstIdle /\ LastIdle /\ va = AffectedIdle /\ ty = TypoIdle /\ gm = GameIdle /\ ss = SessionsIdle /\ az = AnalyzersIdle

ParseNext == CallParseSemver \/ CallParseVersion

SpecParse == ParseInit /\ [][ParseNext]_vars

TypoInit ==
    /\ FirstIdle /\ LastIdle
    /\ va = AffectedIdle /\ pv = ParseIdle /\ gm = GameIdle /\ ss = SessionsIdle /\ az = AnalyzersIdle
    /\ ty \in TypoInputs

TypoNext == CallCheckTyposquatting \/ CallAnalyzeTyposquatting

SpecTypo == TypoInit /\ [][TypoNext]_vars

\* the name check on the names one edit away from a popular name
EditsInit ==
    /\ FirstIdle /\ LastIdle
    /\ va = AffectedIdle /\ pv = ParseIdle /\ gm = GameIdle /\ ss = SessionsIdle /\ az = AnalyzersIdle
    /\ ty \in EditInputs

SpecEdits == EditsInit /\ [][TypoNext]_vars

\* the analyzer block alone
AnalyzersInit ==
    /\ FirstIdle /\ LastIdle
    /\ va = AffectedIdle /\ pv = ParseIdle /\ ty = TypoIdle /\ gm = GameIdle /\ ss = SessionsIdle
    /\ az \in AnalyzerInputs

AnalyzersNext == RunAnalyzer \/ AnalyzersTick

SpecAnalyzers == AnalyzersInit /\ [][AnalyzersNext]_vars

\* a game from new_game on
GameInit ==
    /\ FirstIdle /\ LastIdle
    /\ va = AffectedIdle /\ pv = ParseIdle /\ ty = TypoIdle /\ ss = SessionsIdle /\ az = AnalyzersIdle
    /\ gm = GameIdle

GameNext == Move \/ Look \/ Take \/ Attack \/ Use \/ UnknownAction

SpecGame == GameInit /\ [][GameNext]_vars

\* the session store under new-game requests
SessionsInit ==
    /\ FirstIdle /\ LastIdle
    /\ va = AffectedIdle /\ pv = ParseIdle /\ ty = TypoIdle /\ gm = GameIdle /\ az = AnalyzersIdle
    /\ ss \in StoresSoFar

SessionsNext == NewGameRequest \/ SessionsTick

SpecSessions == SessionsInit /\ [][SessionsNext]_vars

\* nothing has been called in the specifications before the last ones
MidIdle ==
    /\ va = AffectedIdle /\ pv = ParseIdle /\ ty = TypoIdle /\ gm = GameIdle
    /\ ss = SessionsIdle /\ az = AnalyzersIdle

\* the cache keys alone
KeysInit == FirstIdle /\ MidIdle /\ kc = KeysIdle /\ an = CallsIdle

KeysNext == KeyGet \/ KeySet

\* the two analyzers alone
CallsInit == FirstIdle /\ MidIdle /\ kc = KeysIdle /\ an \in RepositoryCalls \cup AgeCalls

CallsNext == CallAnalyzeRepository \/ CallAnalyzePackageAge

SpecCalls == CallsInit /\ [][CallsNext]_vars

SpecKeys == KeysInit /\ [][KeysNext]_vars

----------------------------------------------------------------------------
(* Claims about the version comparator (checked under SpecRange) *)

\* a bound that is given: neither None nor the empty text
Present(t) == t # NoneText /\ t # <<>>

\* the order of (major, minor, patch) triples, stated on one number
VersionKey(t) == (t[1] * 1000 + t[2]) * 1000 + t[3]

RangeRule(version, introduced, fixed, last_affected) ==
    LET v == VersionKey(parse_semver(version))
    IN  /\ v >= VersionKey(parse_semver(introduced))
        /\ IF Present(last_affected) THEN v <= VersionKey(parse_semver(last_affected))
           ELSE IF Present(fixed) THEN v < VersionKey(parse_semver(fixed))
           ELSE TRUE

\* C8: version_in_range is true exactly when version >= introduced and
\* version <= last_affected if last_affected is present, otherwise
\* version < fixed if fixed is present, otherwise always; so 4.17.11 is
\* affected by {introduced 0, fixed 4.17.12} and 4.17.12 and 4.17.21 are not.
C8_RangeRule ==
    rv.called =>
        /\ rv.result = RangeRule(rv.version, rv.introduced, rv.fixed, rv.last_affected)
        /\ ( /\ rv.introduced = <<"0">>
             /\ rv.fixed = VerText(4, 17, 12)
             /\ rv.last_affected = NoneText
             /\ rv.version \in SpecimenTexts )
           => (rv.result <=> rv.version = VerText(4, 17, 11))

C8_Witness ==
    /\ rv.called
    /\ rv.version = VerText(4, 17, 12)
    /\ rv.introduced = <<"0">>
    /\ rv.fixed = VerText(4, 17, 12)
    /\ rv.last_affected = NoneText
    /\ rv.result = FALSE

\* C9: when the audited version or a bound of the range is malformed (parses
\* to (0,0,0) because it is no digits.digits.digits text), the range check
\* reports the version as affected, for every range.
C9_MalformedAssumedAffected ==
    ( /\ rv.called
      /\ \/ IsMalformed(rv.version)
         \/ rv.introduced # <<"0">> /\ IsMalformed(rv.introduced)
         \/ Present(rv.fixed) /\ IsMalformed(rv.fixed)
         \/ Present(rv.last_affected) /\ IsMalformed(rv.last_affected) )
    => rv.result = TRUE

----------------------------------------------------------------------------
(* Claims about the scoring engine (checked under SpecScore) *)

LevelRank(level) ==
    CASE level = "low"      -> 0
      [] level = "medium"   -> 1
      [] level = "high"     -> 2
      [] level = "critical" -> 3
      [] OTHER              -> 0 - 1

ThresholdRank(score) ==
    IF score >= 76 THEN 3 ELSE IF score >= 51 THEN 2 ELSE IF score >= 26 THEN 1 ELSE 0

HasCriticalAuthOrSec(factors) ==
    \E i \in 1..Len(factors) :
        /\ factors[i].severity = "critical"
        /\ factors[i].category \in {"authenticity", "security"}

\* C10: the risk level is critical for a score >= 76, high for >= 51, medium
\* for >= 26 and low otherwise, except that with a critical finding in
\* authenticity or security the level is at least high whatever the score;
\* get_risk_level(20, True) is high.
C10_RiskLevel ==
    /\ sc.called = "score" =>
          /\ sc.level \in {"low", "medium", "high", "critical"}
          /\ LevelRank(sc.level) =
                Max(ThresholdRank(sc.score), IF HasCriticalAuthOrSec(sc.factors) THEN 2 ELSE 0)
    /\ sc.called = "level" =>
          /\ sc.level \in {"low", "medium", "high", "critical"}
          /\ LevelRank(sc.level) = Max(ThresholdRank(sc.score), IF sc.flag THEN 2 ELSE 0)
          /\ (sc.score = 20 /\ sc.flag) => sc.level = "high"

\* one critical security finding and nothing else: score 37, level high
C10_Witness ==
    /\ sc.called = "score"
    /\ Len(sc.factors) = 1
    /\ HasCriticalAuthOrSec(sc.factors)
    /\ sc.score = 37
    /\ sc.level = "high"

\* the documented tables, in exact arithmetic: base points, category
\* multipliers in tenths, severity weights in twentieths
BasePoints(severity) ==
    CASE severity = "critical" -> 25
      [] severity = "high"     -> 15
      [] severity = "medium"   -> 8
      [] severity = "low"      -> 3
      [] OTHER                 -> 0

MultiplierTenths(category) ==
    CASE category \in {"authenticity", "security"} -> 15
      [] category = "maintenance"                 -> 10
      [] OTHER                                    -> 8

WeightTwentieths(severity) ==
    CASE severity = "critical" -> 10
      [] severity = "high"     -> 6
      [] severity = "medium"   -> 3
      [] severity = "low"      -> 1
      [] OTHER                 -> 0

\* the sum of basePoints * categoryMultiplier over a list, in tenths
RECURSIVE ExactTotal(_)
ExactTotal(factors) ==
    IF factors = <<>> THEN 0
    ELSE BasePoints(Head(factors).severity) * MultiplierTenths(Head(factors).category)
         + ExactTotal(Tail(factors))

\* the accumulated weight of a category over a list, in twentieths
RECURSIVE ExactWeight(_, _)
ExactWeight(factors, cat) ==
    IF factors = <<>> THEN 0
    ELSE (IF Head(factors).category = cat THEN WeightTwentieths(Head(factors).severity) ELSE 0)
         + ExactWeight(Tail(factors), cat)

\* C11: the overall score of every finding list is the whole part of the sum
\* of basePoints[severity] * categoryMultiplier[category] over its findings,
\* clamped to 100; the empty list scores 0, info findings add nothing, one
\* critical security finding alone scores 37 and a high security finding
\* scores more than a high reputation finding.
C11_ScoreIsClampedSum ==
    sc.called = "score" =>
        /\ sc.score = Min(100, ExactTotal(sc.factors) \div 10)
        /\ sc.factors = <<>> => sc.score = 0
        /\ (\A i \in 1..Len(sc.factors) : sc.factors[i].severity = "info") => sc.score = 0
        /\ sc.factors = <<[severity |-> "critical", category |-> "security"]>> => sc.score = 37
        /\ sc.factors = <<[severity |-> "high", category |-> "security"]>> =>
              sc.score > calculate_risk_score(<<[severity |-> "high", category |-> "reputation"]>>).score

\* C12: the overall score of a list with one more finding is at least the
\* overall score of the list, and every overall score lies in [0, 100].
C12_MonotoneAndBounded ==
    /\ sc.called \in {"score", "added", "permuted"} => sc.score \in 0..100
    /\ sc.called = "added" => sc.score >= sc.prev.score

\* a critical finding was added to a list of at least four findings, and
\* took its score from below 100 to the cap
C12_Witness ==
    /\ sc.called = "added"
    /\ Len(sc.prev.factors) >= 4
    /\ sc.added.severity = "critical"
    /\ sc.prev.score < 100
    /\ sc.score = 100

\* the documented sub-score for an accumulated weight of k twentieths
DocumentedSubScore(k) ==
    IF k = 0 THEN 100
    ELSE IF k > Len(DecayTable) THEN 5
    ELSE Max(5, DecayTable[k])

\* C13: each of the four sub-scores is 100 when the accumulated weight of
\* its category is zero and max(5, floor(100 * 0.5^weight)) otherwise; so it
\* lies in [5, 100], and one critical finding alone gives 70.
C13_SubScoreFormula ==
    sc.called = "score" =>
        \A cat \in Categories :
            /\ sc.radar[cat] = DocumentedSubScore(ExactWeight(sc.factors, cat))
            /\ sc.radar[cat] \in 5..100
            /\ (Len(sc.factors) = 1 /\ sc.factors[1] = [severity |-> "critical", category |-> cat])
                  => sc.radar[cat] = 70

\* C14: adding one finding of severity s in category c leaves the sub-scores
\* of the three other categories unchanged; added to the empty list, it
\* leaves them at 100 and makes the overall score the whole part of
\* basePoints[s] * categoryMultiplier[c].
C14_OtherCategoriesUnchanged ==
    sc.called = "added" =>
        /\ \A cat \in Categories \ {sc.added.category} : sc.radar[cat] = sc.prev.radar[cat]
        /\ sc.prev.factors = <<>> =>
              /\ \A cat \in Categories \ {sc.added.category} : sc.radar[cat] = 100
              /\ sc.score = (BasePoints(sc.added.severity) * MultiplierTenths(sc.added.category)) \div 10

\* a finding was added to a list that had lowered another category, and
\* lowered the sub-score of its own category
C14_Witness ==
    /\ sc.called = "added"
    /\ sc.radar[sc.added.category] < sc.prev.radar[sc.added.category]
    /\ \E cat \in Categories \ {sc.added.category} : sc.prev.radar[cat] < 100

\* C15: scoring is a pure, order-independent function: a list scored a
\* second time, as it is or with its findings in another order, gets the
\* same overall score, risk level and sub-scores.
C15_OrderIndependent ==
    sc.called = "permuted" =>
        /\ sc.score = sc.prev.score
        /\ sc.level = sc.prev.level
        /\ sc.radar = sc.prev.radar

----------------------------------------------------------------------------
(* Claims about the TTL cache, under SpecCache *)

\* C6: a get of a key returns the value of the latest set of that key while
\* the age of that set is below the time-to-live, absent once the age
\* exceeds it, and absent for a key that was never set; the age counts from
\* the latest set, so a later set replaces the value and restarts the age.
C6_CacheContract ==
    hist.get.done =>
        LET g   == hist.get
            age == g.time - g.set_time
        IN  /\ ~ g.was_set => g.ret = PyNone
            /\ (g.was_set /\ age < TTL_SECONDS) => g.ret = g.set_value
            /\ (g.was_set /\ age > TTL_SECONDS) => g.ret = PyNone

\* a get of a key whose latest set is older than the time-to-live, after the
\* key had been set more than once or not
C6_Witness ==
    /\ hist.get.done
    /\ hist.get.was_set
    /\ hist.get.time - hist.get.set_time > TTL_SECONDS
    /\ hist.get.ret = PyNone

\* every stored entry is the value and the timestamp of the latest completed
\* set of its key, and a get returns absent or that value
CacheMatchesLastSet ==
    /\ \A k \in DOMAIN osv_cache :
          k \in DOMAIN hist.last_set /\ osv_cache[k] = hist.last_set[k]
    /\ hist.get.done =>
          \/ hist.get.ret = PyNone
          \/ hist.get.was_set /\ hist.get.ret = hist.get.set_value

\* an entry disappears only when it has expired, and changes only into the
\* entry of a set of its key made in this step
EntryStep ==
    \A k \in DOMAIN osv_cache :
       /\ k \notin DOMAIN osv_cache' => now - osv_cache[k].timestamp >= TTL_SECONDS
       /\ (k \in DOMAIN osv_cache' /\ osv_cache'[k] # osv_cache[k]) =>
             /\ osv_cache'[k].timestamp = now
             /\ hist'.last_set[k] = osv_cache'[k]
             /\ hist'.ret.done /\ hist'.ret.key = k /\ ~ hist'.ret.cached

\* C7: whatever the interleaving of the lookups and insertions of the
\* concurrent fetches, a get returns absent or the value of the latest
\* completed set of its key, an entry never pairs a value with the timestamp
\* of another set, and an entry disappears only by expiry or by a later set
\* of the same key.
C7_CacheConsistent == [] CacheMatchesLastSet /\ [][EntryStep]_vars

\* a cached value is returned to one caller while the fetch of another key
\* is in flight
C7_Witness ==
    /\ hist.ret.done /\ hist.ret.cached
    /\ hist.get.ret = hist.get.set_value
    /\ \E r \in FvRequests : fv[r] > 0 /\ OsvCacheKey(r[1], r[2]) # hist.ret.key

----------------------------------------------------------------------------
(* Claims about the fetch orchestrator, under Spec and SpecFair *)

\* the findings of a report that carry one of the given names
Named(factors, names) == SelectSeq(factors, LAMBDA f : f.name \in names)

RepositoryNames ==
    {"No Repository Link", "Repository Not Verified", "Repository Archived",
     "Low Repository Stars"}

DownloadNames == {"Suspicious Download Spike", "Low Adoption"}

ProvenanceNames ==
    {"No Sigstore Provenance", "Sigstore Provenance Verified",
     "Provenance Present (Unverified)"}

VulnerabilityNames == {"Known Vulnerability"}

\* the source of a task was asked and failed or timed out.  A 404 of the
\* downloads API and of the attestations endpoint is an answer (no
\* downloads, no attestations); every answer of GitHub but a 200 is a failure.
SourceFailed(t) ==
    /\ au.tasks[t].st = "done"
    /\ au.tasks[t].outcome \in
          ( CASE t = "repo" -> {"not_found", "failed", "timeout", "invalid"}
              [] t = "vuln" -> {"timeout", "error"}
              [] t = "allv" -> {"failed"}
              [] OTHER      -> {"failed", "timeout"} )

\* C1: an audit that passed the registry stage returns a report whatever
\* stage-2 fetches fail and in whatever order they complete; the field of a
\* failed fetch is absent (None, the empty list, the empty dict), the field
\* of every other fetch is the value that fetch returned, and the findings
\* of the report are those of the analyzers on these fields.
C1_FailureIsolated ==
    /\ au.pc = "error" => \A t \in Stage2Tasks : au.tasks[t].st = "none"
    /\ au.pc = "done" =>
          LET b == au.out.bundle
              repo == au.tasks["repo"]
              vuln == au.tasks["vuln"]
              prov == au.tasks["prov"]
          IN  /\ au.out.kind = "report"
              /\ b.github_data = IF repo.st = "done" /\ ~ SourceFailed("repo")
                                 THEN repo.result ELSE PyNone
              /\ b.advisories = IF SourceFailed("vuln") THEN PyList(<<>>) ELSE vuln.result
              /\ b.provenance_data = IF ~ SourceFailed("prov") /\ PyTruthy(prov.result)
                                     THEN analyze_provenance(prov.result) ELSE EmptyPyDict
              /\ Named(au.out.factors, RepositoryNames)
                    = analyze_repository(au.repo_url, b.github_data)
              /\ Named(au.out.factors, VulnerabilityNames)
                    = analyze_vulnerabilities(b.advisories)
              /\ Named(au.out.factors, ProvenanceNames)
                    = analyze_provenance_factors(b.provenance_data)

\* a report made after the repository fetch failed while the vulnerability
\* and provenance fetches returned records and attestations
C1_Witness ==
    /\ au.pc = "done"
    /\ SourceFailed("repo")
    /\ au.tasks["vuln"].outcome = "ok" /\ Len(au.out.bundle.advisories.items) >= 1
    /\ au.tasks["prov"].outcome = "ok" /\ au.out.bundle.provenance_data # EmptyPyDict

\* C2: an audit whose registry fetch fails with not-found ends with
\* package_not_found (404), one whose registry fetch fails otherwise ends
\* with internal_error (500), and neither produces a report, whatever the
\* download statistics fetch did.
C2_RegistryFailureKinds ==
    ( au.pc \in {"done", "error"} /\ au.tasks["meta"].outcome # "ok" ) =>
        /\ au.pc = "error"
        /\ au.out = IF au.tasks["meta"].outcome = "not_found"
                    THEN HTTPException(404, "package_not_found")
                    ELSE HTTPException(500, "internal_error")

\* the analyzers ran when no task was in flight
AnalysedAtRest ==
    au.pc = "done" =>
        /\ \A t \in DOMAIN au.tasks : au.tasks[t].st # "pending"
        /\ au.out.in_flight = {}

\* after the analyzers ran, the tasks and what was computed from them stay
\* as they are until the next audit starts
ReportStable == (au.pc = "done" /\ au'.pc = "done") => au' = au

\* C3: the analyzers of an audit run only when every fetch of the audit has
\* completed, failed or timed out, and no field they read changes afterwards.
C3_AnalyzersAfterFetches == [] AnalysedAtRest /\ [][ReportStable]_vars

\* a report made after all four stage-2 fetches were sent, one timing out
C3_Witness ==
    /\ au.pc = "done"
    /\ \A t \in Stage2Tasks : au.tasks[t].st = "done" /\ au.tasks[t].outcome # "cached"
    /\ au.tasks["repo"].outcome = "timeout"
    /\ au.out.in_flight = {}

FailedField(t) ==
    CASE t = "dl"   -> PyInt(0)
      [] t = "repo" -> PyNone
      [] t = "vuln" -> PyList(<<>>)
      [] t = "prov" -> EmptyPyDict

BundleField(t) ==
    CASE t = "dl"   -> au.out.bundle.weekly_downloads
      [] t = "repo" -> au.out.bundle.github_data
      [] t = "vuln" -> au.out.bundle.advisories
      [] t = "prov" -> au.out.bundle.provenance_data

\* a timeout of a source other than the registry leaves what its other
\* failures leave
TimeoutAsFailure ==
    au.pc = "done" =>
        \A t \in {"dl", "repo", "vuln", "prov"} :
            au.tasks[t].outcome = "timeout" => BundleField(t) = FailedField(t)

\* C5: when every fetch returns or times out, an audit that has started
\* ends with a report or a typed error, and a timeout of a source other than
\* the registry is handled as its other failures are.
C5_AuditTerminates ==
    /\ [] TimeoutAsFailure
    /\ (au.pc \in {"stage1", "stage2"}) ~> (au.pc \in {"done", "error"})

\* a report made after the repository fetch and the provenance fetch timed out
C5_Witness ==
    /\ au.pc = "done"
    /\ au.out.kind = "report"
    /\ au.tasks["repo"].outcome = "timeout"
    /\ au.tasks["prov"].outcome = "timeout"

----------------------------------------------------------------------------
(* Claims about repeated audits, under SpecRepeat: rep is the previous      *)
(* audit of the same request, and upstream answers every fetch with what it *)
(* answered then.                                                           *)

\* two reports carry the same findings in the same order and the same scores
SameFindingsAndScores(a, b) ==
    /\ a.factors = b.factors
    /\ a.risk_score = b.risk_score
    /\ a.risk_level = b.risk_level
    /\ a.radar_scores = b.radar_scores

\* the audit has returned a report, and so had the previous audit
SecondReport ==
    /\ au.pc = "done"
    /\ rep.recorded
    /\ rep.out.kind = "report"

VersionNotListed ==
    /\ au.tasks["meta"].st = "done"
    /\ ~ IsException(au.tasks["meta"].result)
    /\ Truthy(au.request.version)
    /\ au.request.version \notin DOMAIN Get(au.tasks["meta"].result, "versions", EmptyDict)

OnlyRepoTimedOut ==
    /\ au.pc \in {"done", "error"}
    /\ au.tasks["repo"].st = "done" /\ au.tasks["repo"].outcome = "timeout"
    /\ \A t \in {"meta", "dl", "allv", "prov"} :
          au.tasks[t].st = "done" /\ au.tasks[t].outcome = "ok"
    /\ au.tasks["vuln"].st = "done" /\ au.tasks["vuln"].outcome \in {"ok", "cached"}

\* C18: when the repository fetch times out and all the other sources
\* succeed, the audit returns a report, repository_verification is None or
\* says exists = False and verified = False, and the advisories, the
\* provenance data and their findings are those of the records and
\* attestations the other fetches returned.
C18_RepoTimeoutDegrades ==
    OnlyRepoTimedOut =>
        /\ au.pc = "done"
        /\ au.out.kind = "report"
        /\ au.out.repository_verification
              \in {PyNone, PyDict([exists |-> FALSE, verified |-> FALSE])}
        /\ au.out.bundle.github_data = PyNone
        /\ au.out.bundle.advisories = au.tasks["vuln"].result
        /\ au.out.bundle.provenance_data
              = IF PyTruthy(au.tasks["prov"].result)
                THEN analyze_provenance(au.tasks["prov"].result) ELSE EmptyPyDict
        /\ Named(au.out.factors, VulnerabilityNames)
              = analyze_vulnerabilities(au.tasks["vuln"].result)
        /\ Named(au.out.factors, ProvenanceNames)
              = analyze_provenance_factors(au.out.bundle.provenance_data)

\* a report of a package with a repository URL and with advisories, made
\* after only the repository fetch timed out
C18_Witness ==
    /\ OnlyRepoTimedOut
    /\ au.pc = "done"
    /\ au.repo_url # ""
    /\ au.out.repository_verification = PyDict([exists |-> FALSE, verified |-> FALSE])
    /\ Len(au.out.bundle.advisories.items) > 0

\* every source was asked at most once in the audit
AskedAtMostOnce == \A t \in DOMAIN au.sent : au.sent[t] <= 1

\* within an audit a fetch that has returned or failed stays as it is
NotReissued ==
    audits' = audits =>
        \A t \in DOMAIN au.tasks :
            au.tasks[t].st = "done" => au'.tasks[t] = au.tasks[t] /\ au'.sent[t] = au.sent[t]

\* the report holds the default of every failed second-stage source and 0
\* downloads for failed statistics, and no report follows a failed registry
\* fetch
FailedIsAbsent ==
    /\ au.pc = "done" =>
          \A t \in {"dl", "repo", "vuln", "prov"} :
              SourceFailed(t) => BundleField(t) = FailedField(t)
    /\ (au.tasks["meta"].st = "done" /\ IsException(au.tasks["meta"].result))
          => au.pc \in {"stage1", "error"}

Expired(k) == k \in DOMAIN osv_cache /\ now - osv_cache[k].timestamp >= TTL_SECONDS

\* the step is a get of key k (the lookup that opens fetch_vulnerabilities)
GetOf(k) == calls' = calls + 1 /\ hist'.get.key = k

\* a step of the cache removes an entry only in a get of the entry's own key
\* when the entry has expired, and that get returns None; every other entry,
\* expired or not, stays as it is in every get and when time passes
LazyStep ==
    \A k \in DOMAIN osv_cache :
        /\ (GetOf(k) /\ Expired(k)) => (k \notin DOMAIN osv_cache' /\ hist'.get.ret = PyNone)
        /\ (GetOf(k) /\ ~ Expired(k)) => (osv_cache' = osv_cache /\ hist'.get.ret = osv_cache[k].value)
        /\ (calls' = calls + 1 /\ ~ GetOf(k)) => (k \in DOMAIN osv_cache' /\ osv_cache'[k] = osv_cache[k])
        /\ now' # now => osv_cache' = osv_cache
        /\ ~ (GetOf(k) /\ Expired(k)) => k \in DOMAIN osv_cache'

\* C20: eviction is lazy: an expired entry stays stored until the next get
\* of its own key, which removes it and returns None; the passing of time
\* and the operations on other keys remove no entry, and a get of an
\* unexpired entry removes nothing.
C20_LazyEviction == [][LazyStep]_vars

\* an expired entry is still stored after a get of another key at the
\* current time
C20_Witness ==
    \E k \in DOMAIN osv_cache :
        /\ Expired(k)
        /\ hist.get.key # k
        /\ hist.get.done
        /\ hist.get.time = now

----------------------------------------------------------------------------
(* Claims about the record filter (checked under SpecAffected) *)

\* index of the event that closes the interval opened by events[i]: the
\* first fixed or last_affected event after i that comes before the next
\* introduced event, 0 when the interval is open
Closing(events, i) ==
    LET closes == { j \in (i + 1)..Len(events) :
                       /\ events[j].kind \in {"fixed", "last_affected"}
                       /\ \A k \in (i + 1)..(j - 1) : events[k].kind # "introduced" }
    IN  IF closes = {} THEN 0 ELSE CHOOSE j \in closes : \A k \in closes : j <= k

\* the interval that events[i] opens matches the version under the range rule
IntervalMatches(version, events, i) ==
    LET j == Closing(events, i)
        bound(kind) == IF j # 0 /\ events[j].kind = kind THEN events[j].value ELSE NoneText
    IN  /\ events[i].kind = "introduced"
        /\ RangeRule(version, events[i].value, bound("fixed"), bound("last_affected"))

\* at least one affected range of the record (a SEMVER range of the npm
\* package) matches the version
SomeRangeMatches(version, vuln) ==
    \E a \in 1..Len(vuln.affected) :
        /\ vuln.affected[a].ecosystem = "npm"
        /\ \E r \in 1..Len(vuln.affected[a].ranges) :
              LET range == vuln.affected[a].ranges[r]
              IN  /\ range.type = "SEMVER"
                  /\ \E i \in 1..Len(range.events) : IntervalMatches(version, range.events, i)

Matching(version, vulns) == { i \in 1..Len(vulns) : SomeRangeMatches(version, vulns[i]) }

\* C21: a vulnerability record affects the audited version iff at least one
\* of its affected ranges matches that version under the range rule; a
\* record none of whose ranges matches is left out of the version's
\* vulnerabilities and is counted as already fixed.
C21_AffectedIffRangeMatches ==
    Truthy(va.version) =>
        /\ va.called = "is_version_affected"
              => (va.affected <=> SomeRangeMatches(va.version, va.vulns[1]))
        /\ va.called = "fetch_vulnerabilities"
              => Len(va.results) = Cardinality(Matching(va.version, va.vulns))
        /\ va.called = "audit_package"
              => va.fixed_count = Len(va.vulns) - Cardinality(Matching(va.version, va.vulns))

\* the severity of a record on the scale critical/high/medium/low: that of
\* its database, moderate being medium, and medium when it has none
RecordSeverity(vuln) ==
    CASE vuln.db_severity = "CRITICAL" -> "critical"
      [] vuln.db_severity = "HIGH"     -> "high"
      [] vuln.db_severity = "LOW"      -> "low"
      [] OTHER                         -> "medium"

\* the records of a list that match the version, in the order of the list
MatchingRecords(version, vulns) ==
    SelectSeq(vulns, LAMBDA vuln : SomeRangeMatches(version, vuln))

\* C23: for the resolved version, the findings contain exactly one finding
\* for each vulnerability record whose affected range matches that version,
\* with the severity of the record and the category security, and no
\* finding for a record whose ranges do not match.
C23_OneFindingPerMatchingRecord ==
    (va.called = "analyze_vulnerabilities" /\ Truthy(va.version)) =>
        LET matching == MatchingRecords(va.version, va.vulns)
        IN  /\ Len(va.findings) = Len(matching)
            /\ \A i \in 1..Len(va.findings) :
                  /\ i <= Len(matching) => va.findings[i].severity = RecordSeverity(matching[i])
                  /\ va.findings[i].category = "security"
                  /\ va.findings[i].name = "Known Vulnerability"

----------------------------------------------------------------------------
(* Claims about the version parsers (checked under SpecParse) *)

\* the three numbers a text x.y.z is made of
Triple(t) ==
    CHOOSE xyz \in ((0..MaxComp) \cup {4, 11, 12, 17, 21}) \X ((0..MaxComp) \cup {17})
                      \X ((0..MaxComp) \cup {11, 12, 21}) :
        VerText(xyz[1], xyz[2], xyz[3]) = t

\* C22: the version parser tolerates leading qualifiers: for every version
\* x.y.z, the text with a leading v, ^, ~ or comparison operator parses to
\* the same (major, minor, patch) triple as x.y.z itself.
C22_QualifiersTolerated ==
    pv.called # "none" => (pv.plain = Triple(pv.text) /\ pv.qualified = pv.plain)

\* the claim of C22 for parse_version of round_3 alone
ParseVersionTolerant ==
    pv.called = "parse_version" => (pv.plain = Triple(pv.text) /\ pv.qualified = pv.plain)


\* C24: every popular entry, scoped ones included, written in any case, with
\* surrounding blanks or with underscores for hyphens, is answered with the
\* empty list by check_typosquatting and so yields no typosquatting finding
C24_PopularNeverFlagged ==
    (ty.called # "none" /\ ty.name \in PopularVariants) => ty.matches = <<>>

\* the entries that are answered with the empty list: every one whose
\* normalized name is itself in the list
C24_UnscopedNeverFlagged ==
    (ty.called # "none" /\ IsPopular(normalize_package_name(ty.name)))
        => ty.matches = <<>>

\* the findings of analyzer k in a run of the declared order at the time
\* the arguments were built
Reference(k) == Analyze(k, az.built, az.t0)

\* the analyzer k is called in this step
Called(k) == k \notin az.ran /\ k \in az'.ran

SameAge == ~ PyTruthy(az.built.created) \/ AgeDays(az.built.created.n, az.t) = az.built.age_days

C26_GameOverTerminal ==
    [][ gm.state.game_over =>
            /\ gm'.state = gm.state
            /\ gm'.result = [success |-> FALSE, event_type |-> "", error_emoji |-> "skull"] ]_vars

\* a move was requested after the player died, and refused with the skull
C26_Witness ==
    /\ gm.state.game_over /\ ~ gm.state.victory
    /\ gm.action = "move" /\ gm.params.direction \in VALID_DIRECTIONS
    /\ gm.result.error_emoji = "skull"

\* the step is a take, in a game that is not over, of an item of the room
TakesPresentItem ==
    /\ ~ gm.state.game_over
    /\ gm'.action = "take"
    /\ gm'.params.item \in VALID_ITEMS
    /\ InList(gm'.params.item, gm.state.room_items[gm.state.current_room])

\* C27: a take while an alive enemy is in the room fails with the swords
\* error, leaves the item in the room and out of the inventory, and costs
\* health (at health 1 the player dies: game_over, event player_died); with
\* no alive enemy the take succeeds and health is unchanged
C27_TakeBlockedAndPunished ==
    [][ TakesPresentItem =>
            IF AliveEnemies(gm.state) # {}
            THEN /\ ~ gm'.result.success
                 /\ gm'.result.error_emoji = "swords"
                 /\ gm'.state.room_items = gm.state.room_items
                 /\ gm'.state.inventory = gm.state.inventory
                 /\ gm'.state.health < gm.state.health
                 /\ gm.state.health = 1 =>
                        gm'.state.game_over /\ gm'.result.event_type = "player_died"
            ELSE /\ gm'.result.success
                 /\ gm'.state.health = gm.state.health ]_vars

\* what the engine does: the take with an alive enemy in the room is refused
\* with the swords error and changes nothing at all, health included
TakeBlockedUnharmed ==
    [][ TakesPresentItem =>
            IF AliveEnemies(gm.state) # {}
            THEN /\ ~ gm'.result.success
                 /\ gm'.result.error_emoji = "swords"
                 /\ gm'.state = gm.state
            ELSE /\ gm'.result.success
                 /\ gm'.state.health = gm.state.health ]_vars

\* C28: the player is in the throne room only if throne is unlocked: a move
\* down from the dungeon fails with door_locked and the lock sign and moves
\* nobody while throne is locked, and using the key in the dungeon unlocks
\* throne and takes the key out of the inventory
C28_ThroneNeedsKey ==
    [][ /\ gm'.state.current_room = "throne" => "throne" \in gm'.state.unlocked_doors
        /\ ( /\ ~ gm.state.game_over
             /\ gm.state.current_room = "dungeon"
             /\ "throne" \notin gm.state.unlocked_doors
             /\ gm'.action = "move" /\ gm'.params.direction = "down" )
           => /\ ~ gm'.result.success
              /\ gm'.result.event_type = "door_locked"
              /\ gm'.result.error_emoji = "locked"
              /\ gm'.state = gm.state
        /\ ( /\ ~ gm.state.game_over
             /\ gm.state.current_room = "dungeon"
             /\ InList("key", gm.state.inventory)
             /\ gm'.action = "use" /\ gm'.params.item = "key" )
           => /\ gm'.result.success
              /\ "throne" \in gm'.state.unlocked_doors
              /\ ~ InList("key", gm'.state.inventory) ]_vars

\* the player has just entered the throne room
C28_Witness ==
    /\ gm.state.current_room = "throne"
    /\ gm.action = "move" /\ gm.params.direction = "down"
    /\ gm.result.event_type = "room_entered"
    /\ ~ InList("key", gm.state.inventory)

\* the step is a new-game request that reached new_game
ReachedNewGame == ss'.requests = ss.requests + 1 /\ ss'.status # 429

\* the sessions of those times of creation
SessionsOf(times) == SumOver(ss.game_sessions, times)

\* C29: the number of stored sessions never exceeds MAX_SESSIONS: new-game
\* first removes every session older than SESSION_TTL and no younger one,
\* then answers 503 and creates nothing if MAX_SESSIONS sessions are left,
\* and creates one session otherwise
C29_SessionsBounded ==
    [][ /\ Size(ss.game_sessions) <= MAX_SESSIONS
        /\ Size(ss'.game_sessions) <= MAX_SESSIONS
        /\ ReachedNewGame =>
             LET older   == { c \in DOMAIN ss.game_sessions : ss.now - c > SESSION_TTL }
                 younger == DOMAIN ss.game_sessions \ older
             IN  /\ \A c \in older : c \notin DOMAIN ss'.game_sessions
                 /\ \A c \in younger : c \in DOMAIN ss'.game_sessions
                                         /\ ss'.game_sessions[c] >= ss.game_sessions[c]
                 /\ IF SessionsOf(younger) >= MAX_SESSIONS
                    THEN /\ ss'.status = 503
                         /\ Size(ss'.game_sessions) = SessionsOf(younger)
                    ELSE /\ ss'.status = 200
                         /\ Size(ss'.game_sessions) = SessionsOf(younger) + 1 ]_vars

\* a request was answered 503 with MAX_SESSIONS sessions stored, after an
\* expired session had been stored and removed
C29_Witness ==
    /\ ss.status = 503
    /\ Size(ss.game_sessions) = MAX_SESSIONS
    /\ (0 - 4000) \notin DOMAIN ss.game_sessions
    /\ ss.ticks > 0

\* the step is the return of a fetch_vulnerabilities call of key k whose
\* request timed out or failed
FailedReturn(k) ==
    /\ calls' = calls /\ now' = now
    /\ hist'.ret.key = k /\ ~ hist'.ret.cached
    /\ k \in hist'.failed

\* the key k holds the empty list of a failed fetch, within the TTL
HoldsFailure(k) == k \in DOMAIN osv_cache /\ k \in hist.failed /\ ~ Expired(k)

\* C30: a fetch that times out or fails stores the empty list under its key
\* and returns it, and every later call of that key within the TTL returns
\* the empty list from the cache and sends no request, whatever the source
\* would answer by then
C30_FailureCached ==
    [][ \A r \in FvRequests :
          LET k == OsvCacheKey(r[1], r[2])
          IN  /\ FailedReturn(k) =>
                    /\ k \in DOMAIN osv_cache'
                    /\ osv_cache'[k] = [value |-> PyList(<<>>), timestamp |-> now]
                    /\ hist'.ret.value = PyList(<<>>)
              /\ (GetOf(k) /\ HoldsFailure(k)) =>
                    /\ hist'.ret = [done |-> TRUE, key |-> k, value |-> PyList(<<>>), cached |-> TRUE]
                    /\ fv' = fv
                    /\ osv_cache' = osv_cache ]_vars

\* a call for lodash, whose advisories the source lists, got the empty list
\* of an earlier failed fetch from the cache, some time after the failure
C30_Witness ==
    \E r \in FvRequests :
        LET k == OsvCacheKey(r[1], r[2])
        IN  /\ r[1] = "lodash"
            /\ HoldsFailure(k)
            /\ hist.ret = [done |-> TRUE, key |-> k, value |-> PyList(<<>>), cached |-> TRUE]
            /\ now > osv_cache[k].timestamp
            /\ fv[r] = 0

----------------------------------------------------------------------------
(* The fatal checks of an audit.                                            *)

\* the audit in progress has issued no stage-2 fetch
NoStage2Fetch(a) ==
    \A t \in Stage2Tasks : a.sent[t] = 0 /\ a.tasks[t].st = "none"

\* C31: an audit that ends with a fatal error (package not found, registry
\* unavailable, invalid version) has issued no repository, vulnerability or
\* provenance fetch and has written no cache entry: in every step that
\* leaves the audit in its first stage or ended by an error, no stage-2
\* request has been sent and the two caches are what they were
C31_FatalBeforeStage2 ==
    [][ au'.pc \in {"stage1", "error"} =>
            /\ NoStage2Fetch(au')
            /\ github_cache' = github_cache
            /\ osv_cache' = osv_cache ]_vars

\* an audit has ended with the registry error, time has passed since, and
\* nothing of the second stage exists
C31_Witness ==
    /\ au.pc = "error"
    /\ au.out.status_code = 500
    /\ au.request.package_name = "no-such-pkg"
    /\ now > 0
    /\ NoStage2Fetch(au)

----------------------------------------------------------------------------
(* The cache keys.                                                          *)

----------------------------------------------------------------------------
(* The risk level along a growing finding list.                             *)

\* C33: adding a finding to a finding list never lowers the risk level
\* (low < medium < high < critical), and the level is critical only when the
\* overall score is at least 76: with a critical finding of a high-risk
\* category and a score below 51 the level is high
C33_LevelMonotone ==
    /\ sc.called = "added" => LevelRank(sc.level) >= LevelRank(sc.prev.level)
    /\ sc.called # "none" =>
          /\ sc.level = "critical" <=> sc.score >= 76
          /\ (sc.flag /\ sc.score < 51) => sc.level = "high"

\* a critical finding of a high-risk category was added to a list of level
\* low and lifted the level to high while the score stayed below 51
C33_Witness ==
    /\ sc.called = "added"
    /\ sc.prev.factors # <<>>
    /\ sc.prev.level = "low"
    /\ sc.added.severity = "critical"
    /\ sc.added.category \in HIGH_RISK_CATEGORIES
    /\ sc.score < 51
    /\ sc.level = "high"

----------------------------------------------------------------------------
(* The download analyzer in an audit.                                       *)

\* the findings of the download analyzer in a finding list
DownloadFindings(factors) ==
    SelectSeq(factors, LAMBDA f : f.name \in {"Suspicious Download Spike", "Low Adoption"})

\* the downloads API answered with a count, or with 404 (no downloads)
DownloadsObtained(a) == a.tasks["dl"].outcome \in {"ok", "not_found"}

\* the registry document holds a creation date
CreatedObtained(a) == PyTruthy(Get(a.tasks["meta"].result, "created", PyNone))

\* the documented findings for an age in days and a weekly count
DownloadRule(age_days, weekly_downloads) ==
    IF age_days < 30 /\ weekly_downloads > 100000
    THEN <<RiskFactor("Suspicious Download Spike", "high", "reputation")>>
    ELSE IF age_days > 365 /\ weekly_downloads < 100
    THEN <<RiskFactor("Low Adoption", "info", "reputation")>>
    ELSE <<>>

\* C34: in an audit the download analyzer emits the high spike finding
\* exactly when the package is under 30 days old with more than 100,000
\* weekly downloads, the info low-adoption finding exactly when it is over
\* 365 days old with fewer than 100, and nothing otherwise, in particular
\* nothing when the creation date or the download count was not obtained
C34_DownloadFindings ==
    au.pc = "done" =>
        DownloadFindings(au.out.factors) =
            IF CreatedObtained(au) /\ DownloadsObtained(au)
            THEN DownloadRule(au.out.age_days, au.out.downloads_weekly.n)
            ELSE <<>>

\* what the audit does instead: the rule is applied to the count the client
\* returned, which is 0 when the downloads API failed
DownloadRuleOnReturnedCount ==
    au.pc = "done" /\ CreatedObtained(au) =>
        DownloadFindings(au.out.factors) =
            DownloadRule(au.out.age_days, au.out.downloads_weekly.n)

----------------------------------------------------------------------------
(* Names one edit away from a popular name.                                 *)

\* the matches are sorted by similarity, the highest first
SortedMatches(matches) ==
    \A i \in 1..(Len(matches) - 1) : RatioGeq(matches[i].ratio, matches[i + 1].ratio)

\* the popular name p is among the matches
Flags(matches, p) == \E i \in 1..Len(matches) : matches[i].name = p

\* C35: for every popular name p and every name q one single-character
\* edit away from p that is not itself popular, check_typosquatting(q)
\* returns a non-empty list that contains p, sorted by similarity with the
\* highest first, and the analyzer reports at most the 3 closest matches
C35_SingleEditFlagged ==
    (ty.called # "none" /\ ty.edit # "none") =>
        /\ ty.matches # <<>>
        /\ Flags(ty.matches, ty.of)
        /\ SortedMatches(ty.matches)
        /\ ty.called = "analyze_typosquatting" =>
              Len(ty.findings) = Min(3, Len(ty.matches))

\* what holds: the edits of an unscoped popular name of at least 5
\* characters are flagged, and every list is sorted and cut to 3 findings
LongNameEditsFlagged ==
    (ty.called # "none" /\ ty.edit # "none") =>
        /\ (Len(ty.of) >= 5 /\ Head(ty.of) # "@") =>
              ty.matches # <<>> /\ Flags(ty.matches, ty.of)
        /\ SortedMatches(ty.matches)
        /\ ty.called = "analyze_typosquatting" =>
              Len(ty.findings) = Min(3, Len(ty.matches))

----------------------------------------------------------------------------
(* The end-to-end scenario: no maintainers, no license, one critical        *)
(* vulnerability affecting the resolved version.                            *)

\* the finding list holds a finding of that name, severity and category
HasFinding(factors, name, severity, category) ==
    \E i \in 1..Len(factors) :
        /\ factors[i].name = name
        /\ factors[i].severity = severity
        /\ factors[i].category = category

\* the audit of the scenario package has ended and the vulnerability source
\* had answered its query with the critical record
ScenarioAudited ==
    /\ au.pc \in {"done", "error"}
    /\ au.request.package_name = "orphan-pkg"
    /\ au.tasks["meta"].outcome = "ok"
    /\ au.tasks["vuln"].outcome = "ok"

\* the report of the scenario: the three findings, a score of at most 100
\* and a level of high or critical
ScenarioReport ==
    /\ au.pc = "done"
    /\ Len(au.out.factors) >= 3
    /\ HasFinding(au.out.factors, "No Maintainers", "critical", "maintenance")
    /\ HasFinding(au.out.factors, "No License Specified", "medium", "authenticity")
    /\ HasFinding(au.out.factors, "Known Vulnerability", "critical", "security")
    /\ au.out.risk_score <= 100
    /\ au.out.risk_level \in {"high", "critical"}

\* C36: auditing a package with no maintainers, no license and one critical
\* vulnerability affecting the resolved version returns a report with the
\* no-maintainers (critical), no-license (medium) and vulnerability
\* (critical) findings, a score of at most 100 and a level of high or
\* critical, whatever the other sources return or fail to return
C36_ScenarioReport == ScenarioAudited => ScenarioReport

\* what holds: the same when the record lists one interval per range
ScenarioReportOneInterval ==
    (ScenarioAudited /\ au.tasks["vuln"].result = PyList(OsvResults(V_1_0_0, <<VulnOrphan>>)))
        => ScenarioReport

----------------------------------------------------------------------------
(* The invariants of the game state.                                        *)

\* the step is a successful move into a dark room without the flashlight
EntersDarkWithoutLight ==
    /\ gm'.action = "move"
    /\ gm'.result.success
    /\ gm'.state.current_room # gm.state.current_room
    /\ create_world[gm'.state.current_room].is_dark
    /\ ~ has_light(gm'.state)

\* C37: in every game state reached from new_game by perform_action health
\* is between 0 and max_health, health 0 means game_over, victory means
\* game_over, victory becomes true only by a successful take of the crown,
\* and entering a dark room without the flashlight sets game_over without
\* victory
C37_GameInvariants ==
    [][ /\ 0 <= gm'.state.health
        /\ gm'.state.health <= gm'.state.max_health
        /\ gm'.state.health = 0 => gm'.state.game_over
        /\ gm'.state.victory => gm'.state.game_over
        /\ (gm'.state.victory /\ ~ gm.state.victory) =>
              /\ gm'.action = "take" /\ gm'.params.item = "crown"
              /\ gm'.result.success
        /\ EntersDarkWithoutLight =>
              /\ gm'.state.game_over /\ ~ gm'.state.victory
              /\ gm'.result.event_type = "grue_attack" ]_vars

\* the dragon has just struck a player of health 1 for 2: health 0 and the
\* game over without victory
C37_Witness ==
    /\ gm.action = "attack"
    /\ gm.result.event_type = "player_died"
    /\ gm.state.current_room = "throne"
    /\ gm.state.health = 0
    /\ gm.state.game_over /\ ~ gm.state.victory

\* the player has just walked into the cave without the flashlight
GrueDeath ==
    /\ gm.action = "move"
    /\ gm.result.event_type = "grue_attack"
    /\ gm.state.current_room = "cave"
    /\ gm.state.game_over /\ ~ gm.state.victory

\* what also holds in this world: the crown is never taken (both trolls and
\* the dragon strike for 6 in all and the player has 3 and one potion of 2)
NeverVictory == ~ gm.state.victory

----------------------------------------------------------------------------
(* The repository analyzer and the age analyzer.                            *)

\* the number of findings of that severity in the list
CountSeverity(factors, severity) ==
    Cardinality({ i \in 1..Len(factors) : factors[i].severity = severity })

\* the data of the repository was resolved: a dictionary that is not empty
Resolved(github_data) == github_data.type = "dict" /\ DOMAIN github_data # {"type"}

\* C38: the repository analyzer emits exactly one medium finding when the
\* package links no repository, exactly one low finding when a repository is
\* linked but its data was not resolved and, when the data is resolved, a
\* high finding iff the repository is archived and an info finding iff it
\* has fewer than 5 stars, and nothing else
C38_RepositoryFindings ==
    (an.fn = "analyze_repository" /\ an.called) =>
        IF an.package_repo = ""
        THEN Len(an.out) = 1 /\ an.out[1].severity = "medium"
        ELSE IF ~ Resolved(an.github_data)
        THEN Len(an.out) = 1 /\ an.out[1].severity = "low"
        ELSE /\ CountSeverity(an.out, "high") = (IF an.github_data.archived THEN 1 ELSE 0)
             /\ CountSeverity(an.out, "info") = (IF an.github_data.stars < 5 THEN 1 ELSE 0)
             /\ Len(an.out) = CountSeverity(an.out, "high") + CountSeverity(an.out, "info")

\* the analyzer was called on a repository of 5 stars that is archived and
\* answered with the high finding alone
C38_Witness ==
    /\ an.fn = "analyze_repository" /\ an.called
    /\ an.package_repo = "https://github.com/lodash/lodash"
    /\ Resolved(an.github_data)
    /\ an.github_data.archived /\ an.github_data.stars = 5
    /\ Len(an.out) = 1 /\ an.out[1].severity = "high"

\* the severity the age buckets give to an age in seconds, "" for none
AgeBucket(age_seconds) ==
    IF age_seconds < 7 * SecondsPerDay THEN "critical"
    ELSE IF age_seconds < 30 * SecondsPerDay THEN "high"
    ELSE IF age_seconds < 90 * SecondsPerDay THEN "medium"
    ELSE ""

\* C39: the age analyzer emits exactly one finding, critical when the
\* package age at the time of the call is under 7 days, high when under 30,
\* medium when under 90, and no finding when the age is 90 days or more or
\* when the creation date is missing or unparsable; an age of exactly 7, 30
\* or 90 days falls in the higher-age bucket
C39_AgeBuckets ==
    (an.fn = "analyze_package_age" /\ an.called) =>
        IF an.created = PyNone \/ an.created = UnparsableDate
        THEN an.out = <<>>
        ELSE IF AgeBucket(an.t - an.created.n) = ""
        THEN an.out = <<>>
        ELSE /\ Len(an.out) = 1
             /\ an.out[1].severity = AgeBucket(an.t - an.created.n)

\* the analyzer was called on a package created exactly 7 days before and
\* answered with the high finding
C39_Witness ==
    /\ an.fn = "analyze_package_age" /\ an.called
    /\ an.created = PyDate(an.t - 7 * SecondsPerDay)
    /\ Len(an.out) = 1 /\ an.out[1].severity = "high"

----------------------------------------------------------------------------
(* Flat deduction of the category sub-scores.                               *)

\* the number of findings of that severity and category in the list
CountOf(factors, severity, cat) ==
    Cardinality({ i \in 1..Len(factors) :
                    factors[i].severity = severity /\ factors[i].category = cat })

\* 100 less 40 per critical, 25 per high and 15 per medium finding of the
\* category, floored at 0
FlatSubScore(factors, cat) ==
    Max(0, 100 - 40 * CountOf(factors, "critical", cat)
               - 25 * CountOf(factors, "high", cat)
               - 15 * CountOf(factors, "medium", cat))

\* the findings of the category are critical, high or medium ones
OnlyDeducting(factors, cat) ==
    CountOf(factors, "low", cat) + CountOf(factors, "info", cat) = 0

\* C40: the category sub-scores follow flat deduction: each finding takes a
\* fixed amount from the 100 of its category (critical 40, high 25, medium
\* 15), the deductions of one category add up and the sub-score is floored
\* at 0: one critical gives 60, one high and one medium give 60, five
\* criticals give 0
C40_FlatDeduction ==
    sc.called = "score" =>
        \A cat \in Categories :
            OnlyDeducting(sc.factors, cat) => sc.radar[cat] = FlatSubScore(sc.factors, cat)

\* what the function returns on the three lists: 70, 73 and 17
DecayOnTheThreeLists ==
    sc.called = "score" =>
        \A cat \in Categories :
            /\ (Len(sc.factors) = 1 /\ CountOf(sc.factors, "critical", cat) = 1)
                  => sc.radar[cat] = 70
            /\ ( /\ Len(sc.factors) = 2 /\ CountOf(sc.factors, "high", cat) = 1
                 /\ CountOf(sc.factors, "medium", cat) = 1 )
                  => sc.radar[cat] = 73
            /\ (Len(sc.factors) = 5 /\ CountOf(sc.factors, "critical", cat) = 5)
                  => sc.radar[cat] = 17
========================================================================
